---------------------------- MODULE Spec2Model ----------------------------
(***************************************************************************)
(* Model of the Diag360 workbook ingestion (backend/app/cli/               *)
(* ingest_workbook.py), of the upsert used by the producers                *)
(* (backend/scripts) and of the tables of backend/app/models.              *)
(*                                                                         *)
(* Text is a sequence of one-character strings, so that strip, lower,      *)
(* startswith, isdigit and the number formats are computed, not assumed.   *)
(* A cell of a sheet read with dtype=object is Null (an empty cell, read   *)
(* as NaN) or a text; a numeric cell is held as the text str() gives for   *)
(* it, which is all that the functions below use of it.  An optional       *)
(* number is Null or Some(n).                                              *)
(***************************************************************************)
EXTENDS Integers, Sequences, FiniteSets, TLC

---------------------------------------------------------------------------
(* Text                                                                    *)

\* None / NaN: a tuple that is no text (its element is not a character).
Null == << "None" >>

\* A number that is present.
Some(n) == << "num", n >>

\* The empty str.
EmptyStr == << >>

\* The characters of the model, in code-point order.
Alphabet ==
    << " ", "-", ".",
       "0", "1", "2", "3", "4", "5", "6", "7", "8", "9",
       "A", "B", "C", "D", "E", "F", "G", "H", "I", "J", "K", "L", "M",
       "N", "O", "P", "Q", "R", "S", "T", "U", "V", "W", "X", "Y", "Z",
       "_",
       "a", "b", "c", "d", "e", "f", "g", "h", "i", "j", "k", "l", "m",
       "n", "o", "p", "q", "r", "s", "t", "u", "v", "w", "x", "y", "z" >>

Digits == << "0", "1", "2", "3", "4", "5", "6", "7", "8", "9" >>

Range(s) == { s[k] : k \in DOMAIN s }

IndexOf(c, s) == CHOOSE k \in DOMAIN s : s[k] = c

\* str.lower() of one character: the upper-case letters are Alphabet[14..39],
\* the lower-case ones Alphabet[41..66].
LowerChar(c) ==
    LET k == IndexOf(c, Alphabet)
    IN  IF k >= 14 /\ k <= 39 THEN Alphabet[k + 27] ELSE c

Lower(s) == [k \in DOMAIN s |-> LowerChar(s[k])]

RECURSIVE LStrip(_)
LStrip(s) == IF s # << >> /\ Head(s) = " " THEN LStrip(Tail(s)) ELSE s

RECURSIVE RStrip(_)
RStrip(s) ==
    IF s # << >> /\ s[Len(s)] = " " THEN RStrip(SubSeq(s, 1, Len(s) - 1)) ELSE s

\* str.strip()
Strip(s) == RStrip(LStrip(s))

\* str.replace(" ", "")
RemoveSpaces(s) == SelectSeq(s, LAMBDA c : c # " ")

\* str.replace(a, b) for single characters
ReplaceChar(s, a, b) == [k \in DOMAIN s |-> IF s[k] = a THEN b ELSE s[k]]

\* str.isdigit(): at least one character, all of them digits
IsDigitStr(s) == s # << >> /\ \A k \in DOMAIN s : s[k] \in Range(Digits)

StartsWith(s, p) == Len(s) >= Len(p) /\ SubSeq(s, 1, Len(p)) = p

EndsWith(s, p) == Len(s) >= Len(p) /\ SubSeq(s, Len(s) - Len(p) + 1, Len(s)) = p

\* int(s) of a string of digits
RECURSIVE DigitsToInt(_)
DigitsToInt(s) ==
    IF s = << >> THEN 0
    ELSE 10 * DigitsToInt(SubSeq(s, 1, Len(s) - 1)) + (IndexOf(s[Len(s)], Digits) - 1)

\* Python's order on str: by code point, a proper prefix first.
RECURSIVE StrLess(_, _)
StrLess(a, b) ==
    IF b = << >> THEN FALSE
    ELSE IF a = << >> THEN TRUE
    ELSE IF Head(a) = Head(b) THEN StrLess(Tail(a), Tail(b))
    ELSE IndexOf(Head(a), Alphabet) < IndexOf(Head(b), Alphabet)

\* sorted(S) of a set of str
RECURSIVE sorted(_)
sorted(S) ==
    IF S = {} THEN << >>
    ELSE LET m == CHOOSE x \in S : \A y \in S \ {x} : StrLess(x, y)
         IN  << m >> \o sorted(S \ {m})

---------------------------------------------------------------------------
(* Canonicalisation (ingest_workbook.py, lines 19-73)                      *)

s_nan == << "n", "a", "n" >>
s_none == << "n", "o", "n", "e" >>

normalise_str(value) ==
    IF value = Null THEN Null
    ELSE LET text == Strip(value)
         IN  IF text = << >> \/ Lower(text) \in { s_nan, s_none } THEN Null
             ELSE text

\* An exception raised instead of a value returned.
Raise(name) == << "raise", name >>

Raises(v) == Len(v) = 2 /\ v[1] = "raise"

\* int(), float() and Decimal() fail beyond these sizes: a str of more than
\* 4300 digits is not converted to or from int (sys.int_max_str_digits), a
\* number of more than 309 digits is the float inf, one below 1e-323 the
\* float 0.0, and a float carries 15 decimal digits exactly.
MaxStrDigits == 4300
FloatMaxDigits == 309
FloatMinExp == 323
FloatDigits == 15

RemoveChar(s, c) == SelectSeq(s, LAMBDA x : x # c)

\* The digits of a number without its leading zeros; << >> is zero.
Sig(d) ==
    LET ks == { k \in DOMAIN d : d[k] # "0" }
    IN  IF ks = {} THEN << >>
        ELSE SubSeq(d, CHOOSE k \in ks : \A j \in ks : k <= j, Len(d))

\* The digits of a number without its trailing zeros.
RStripZeros(d) ==
    LET ks == { k \in DOMAIN d : d[k] # "0" }
    IN  IF ks = {} THEN << >>
        ELSE SubSeq(d, 1, CHOOSE k \in ks : \A j \in ks : j <= k)

Zeros(n) == [k \in 1..n |-> "0"]

\* int() and float() accept an underscore between two digits.
Grouped(s) ==
    \A k \in DOMAIN s :
        s[k] = "_" =>
            /\ k > 1 /\ s[k - 1] \in Range(Digits)
            /\ k < Len(s) /\ s[k + 1] \in Range(Digits)

\* The value of the digits of an exponent, capped above every size that
\* matters.
ExpOf(d) == IF Len(Sig(d)) > 4 THEN 10000 ELSE DigitsToInt(Sig(d))

\* The number digits * 10^exp, negated when neg.
Dec(neg, digits, exp) == << "dec", neg, digits, exp >>

\* A decimal literal without underscores, lower-cased: [-] digits [. digits]
\* [e [-] digits], one of the two digit groups of the mantissa at least being
\* there.  Null when the text is none, else the number digits * 10^exp, the
\* digits without leading zeros.
DecimalLiteral(text) ==
    LET neg == text # << >> /\ Head(text) = "-"
        body == IF neg THEN Tail(text) ELSE text
        es == { k \in DOMAIN body : body[k] = "e" }
        e == IF es = {} THEN Len(body) + 1 ELSE CHOOSE k \in es : TRUE
        mant == SubSeq(body, 1, e - 1)
        expo == SubSeq(body, e + 1, Len(body))
        eneg == expo # << >> /\ Head(expo) = "-"
        edigits == IF eneg THEN Tail(expo) ELSE expo
        ds == { k \in DOMAIN mant : mant[k] = "." }
        d == IF ds = {} THEN Len(mant) + 1 ELSE CHOOSE k \in ds : TRUE
        ip == SubSeq(mant, 1, d - 1)
        fp == SubSeq(mant, d + 1, Len(mant))
    IN  IF /\ Cardinality(es) <= 1
           /\ Cardinality(ds) <= 1
           /\ es # {} => IsDigitStr(edigits)
           /\ ip \o fp # << >>
           /\ \A k \in DOMAIN (ip \o fp) : (ip \o fp)[k] \in Range(Digits)
        THEN Dec(neg, Sig(ip \o fp),
                 (IF es = {} THEN 0
                  ELSE IF eneg THEN 0 - ExpOf(edigits) ELSE ExpOf(edigits))
                 - Len(fp))
        ELSE Null

\* The digits of the whole part of a number, without leading zeros.
IntegerDigits(n) ==
    IF n[3] = << >> THEN << >>
    ELSE IF n[4] >= 0 THEN n[3] \o Zeros(n[4])
    ELSE SubSeq(n[3], 1, Len(n[3]) + n[4])

\* f"{number}" of the whole number of the sign and digits given.
IntText(neg, digits) ==
    IF digits = << >> THEN << "0" >>
    ELSE IF neg THEN << "-" >> \o digits
    ELSE digits

\* int(text): [-] digits.  Null when int() raises ValueError, else the text
\* of the number.
IntLiteral(text) ==
    LET neg == text # << >> /\ Head(text) = "-"
        body == IF neg THEN Tail(text) ELSE text
        digits == RemoveChar(body, "_")
    IN  IF Grouped(body) /\ IsDigitStr(digits) /\ Len(digits) <= MaxStrDigits
        THEN IntText(neg, Sig(digits))
        ELSE Null

\* f"{int(Decimal(text))}": Decimal() drops every underscore; Null when
\* Decimal() raises InvalidOperation or f"{number}" raises ValueError.  The
\* names Decimal() reads as numbers (Infinity, NaN, sNaN) have no e and do
\* not come here.
SciText(n) ==
    IF n = Null THEN Null
    ELSE IF Len(IntegerDigits(n)) > MaxStrDigits THEN Null
    ELSE IntText(n[2], IntegerDigits(n))

SciLiteral(text) == SciText(DecimalLiteral(RemoveChar(Lower(text), "_")))

s_inf == << "i", "n", "f" >>
s_infinity == << "i", "n", "f", "i", "n", "i", "t", "y" >>

\* The float nearest to a number spelt: inf beyond 309 digits.
FloatOfDecimal(n) ==
    IF n = Null THEN Null
    ELSE IF Len(IntegerDigits(n)) > FloatMaxDigits THEN << "inf", n[2] >>
    ELSE n

\* float() of a text stripped and lower-cased.
FloatOfLower(low) ==
    LET neg == low # << >> /\ Head(low) = "-"
        body == IF neg THEN Tail(low) ELSE low
    IN  IF body = s_nan THEN << "nan" >>
        ELSE IF body \in { s_inf, s_infinity } THEN << "inf", neg >>
        ELSE IF ~Grouped(low) THEN Null
        ELSE FloatOfDecimal(DecimalLiteral(RemoveChar(low, "_")))

\* float(text): Null when float() raises ValueError, else << "nan" >>,
\* << "inf", negative >> or the number a decimal literal spells.
FloatLiteral(text) == FloatOfLower(Lower(Strip(text)))

\* A float is the number nearest to the one spelt: its whole part is that
\* of the number spelt when the number has no more than 15 digits down to
\* its units or its last decimal.
Exact(n) ==
    \/ n[3] = << >>
    \/ Len(n[3]) + (IF n[4] > 0 THEN n[4] ELSE 0) <= FloatDigits

\* The text of the whole part of a number read through a float; "~" marks
\* the digits as those of the number before rounding.
FloatIntText(n) ==
    IF Exact(n) THEN IntText(n[2], IntegerDigits(n))
    ELSE << "~" >> \o IntText(n[2], IntegerDigits(n))

\* f"{int(float(text))}" of a text that ends with ".0": Null when float()
\* raises ValueError, Raise("OverflowError") when the float is inf.
DotZeroText(x) ==
    IF x = Null THEN Null
    ELSE IF x[1] = "inf" THEN Raise("OverflowError")
    ELSE FloatIntText(x)

DotZeroLiteral(text) == DotZeroText(FloatLiteral(text))

\* Lines 39-41: the text of the number, the text itself when the
\* conversion raised ValueError or InvalidOperation.
NumberOrText(number, text) == IF number = Null THEN text ELSE number

\* Lines 30-41, of the text normalise_str gave.
CodeOfText(text) ==
    IF text = Null THEN Null
    ELSE NumberOrText(IF "e" \in Range(Lower(text)) THEN SciLiteral(text)
                      ELSE IF EndsWith(text, << ".", "0" >>) THEN DotZeroLiteral(text)
                      ELSE IntLiteral(text),
                      text)

normalise_code(value) == CodeOfText(normalise_str(value))

\* f"i{int(digits):03d}" of a str of digits: int() raises ValueError on
\* more than 4300 of them.
IndicatorText(digits) ==
    IF Len(digits) > MaxStrDigits THEN Raise("ValueError")
    ELSE << "i" >> \o Zeros(IF Len(Sig(digits)) < 3 THEN 3 - Len(Sig(digits)) ELSE 0)
                   \o Sig(digits)

normalise_indicator_id(value) ==
    LET raw == normalise_str(value)
    IN  IF raw = Null THEN Null
        ELSE LET text == Lower(raw)
                 suffix == RemoveSpaces(Strip(Tail(text)))
             IN  IF StartsWith(text, << "i" >>) /\ IsDigitStr(suffix)
                 THEN IndicatorText(suffix)
                 ELSE IF IsDigitStr(text) THEN IndicatorText(text)
                 ELSE text

s_x == << "x" >>
s_1 == << "1" >>
s_true == << "t", "r", "u", "e" >>
s_oui == << "o", "u", "i" >>

_flag(value) ==
    LET text == normalise_str(value)
    IN  IF text = Null THEN FALSE
        ELSE Lower(text) \in { s_x, s_1, s_true, s_oui }

---------------------------------------------------------------------------
(* Tables (app/models) and the session's merge                             *)

\* value `or` other, of Python, for optional texts
Or(value, other) == IF value = Null \/ value = EmptyStr THEN other ELSE value

\* Column defaults applied when a row is inserted with the attribute unset
\* (default=list, default=False, default=0; None otherwise).
NeedDefaults ==
    [id |-> Null, label |-> Null, category |-> Null, description |-> Null,
     indicator_ids |-> << >>]

ObjectiveDefaults ==
    [id |-> Null, label |-> Null, description |-> Null, indicator_ids |-> << >>]

IndicatorTypeDefaults ==
    [id |-> Null, label |-> Null, description |-> Null, indicator_ids |-> << >>]

\* primary_source, primary_url, secondary_source, secondary_url, value_type
\* and unit are set like description and are not told apart here.
IndicatorDefaults ==
    [id |-> Null, label |-> Null, description |-> Null, api_available |-> FALSE,
     need_ids |-> << >>, objective_ids |-> << >>, type_ids |-> << >>]

\* The numeric attributes of Epci are set with to_int (population_total
\* stands for them) or to_float (area_km2 stands for them).
EpciDefaults ==
    [id |-> Null, label |-> Null, department_code |-> Null, region_code |-> Null,
     legal_form |-> Null, population_total |-> Null, area_km2 |-> Null,
     source |-> Null]

IndicatorValueDefaults ==
    [epci_id |-> Null, indicator_id |-> Null, year |-> 0, value |-> Null,
     unit |-> Null, source |-> Null, meta |-> Null]

IndicatorScoreDefaults ==
    [epci_id |-> Null, indicator_id |-> Null, year |-> 0, indicator_score |-> Null,
     need_id |-> Null, need_score |-> Null, objective_id |-> Null,
     objective_score |-> Null, type_id |-> Null, type_score |-> Null,
     global_score |-> Null, report |-> Null]

EntityKey == { "id" }
FactKey == { "epci_id", "indicator_id", "year" }

SameKey(key, a, b) == \A f \in key : a[f] = b[f]

\* session.merge(instance): the attributes set on the instance are copied
\* onto the persistent row of the same primary key, which keeps its other
\* attributes; without such a row, one is inserted, the unset attributes
\* taking the column defaults.
merge(table, key, defaults, given) ==
    LET old == { r \in table : SameKey(key, r, given) }
        base == IF old = {} THEN defaults ELSE CHOOSE r \in old : TRUE
        new == [f \in DOMAIN defaults |->
                   IF f \in DOMAIN given THEN given[f] ELSE base[f]]
    IN  (table \ old) \cup { new }

Ids(table) == { r.id : r \in table }

EmptyStore ==
    [needs |-> {}, objectives |-> {}, types |-> {}, indicators |-> {},
     epcis |-> {}, values |-> {}, scores |-> {}]

---------------------------------------------------------------------------
(* Sheets of reference data.  A sheet is [columns |-> its headers,         *)
(* rows |-> its rows of cells]; the headers of these sheets are opaque     *)
(* names, written without their accents.  The handlers below take the      *)
(* rows as iter_rows yields them.                                          *)

\* dict(zip(columns, values)) for every row: a header met twice keeps its
\* last cell.
iter_rows(df) ==
    [r \in DOMAIN df.rows |->
        [c \in Range(df.columns) |->
            df.rows[r][CHOOSE k \in DOMAIN df.columns :
                           /\ df.columns[k] = c
                           /\ \A j \in DOMAIN df.columns : df.columns[j] = c => j <= k]]]

\* row.get(col)
Get(row, col) == IF col \in DOMAIN row THEN row[col] ELSE Null

RECURSIVE ingest_needs(_, _)
ingest_needs(session, df) ==
    IF df = << >> THEN session
    ELSE LET row == Head(df)
             need_id == normalise_str(Get(row, "ID_besoins"))
             need == [id |-> need_id,
                      label |-> Or(normalise_str(Get(row, "Libelle")), EmptyStr),
                      category |-> Or(normalise_str(Get(row, "Type_de_besoins")),
                                      normalise_str(Get(row, "Categorie"))),
                      description |-> normalise_str(Get(row, "Description"))]
         IN  IF need_id = Null THEN ingest_needs(session, Tail(df))
             ELSE ingest_needs(
                      [session EXCEPT !.needs = merge(@, EntityKey, NeedDefaults, need)],
                      Tail(df))

RECURSIVE ingest_objectives(_, _)
ingest_objectives(session, df) ==
    IF df = << >> THEN session
    ELSE LET row == Head(df)
             obj_id == normalise_str(Get(row, "ID_Objectifs"))
             obj == [id |-> obj_id,
                     label |-> Or(normalise_str(Get(row, "Libelle")), EmptyStr),
                     description |-> normalise_str(Get(row, "Description"))]
         IN  IF obj_id = Null THEN ingest_objectives(session, Tail(df))
             ELSE ingest_objectives(
                      [session EXCEPT !.objectives =
                           merge(@, EntityKey, ObjectiveDefaults, obj)],
                      Tail(df))

RECURSIVE ingest_indicator_types(_, _)
ingest_indicator_types(session, df) ==
    IF df = << >> THEN session
    ELSE LET row == Head(df)
             type_id == Or(normalise_str(Get(row, "ID_")),
                           normalise_str(Get(row, "ID_Type")))
             indicator_type ==
                 [id |-> type_id,
                  label |-> Or(normalise_str(Get(row, "Libelle")), EmptyStr),
                  description |-> normalise_str(Get(row, "Description"))]
         IN  IF type_id = Null THEN ingest_indicator_types(session, Tail(df))
             ELSE ingest_indicator_types(
                      [session EXCEPT !.types =
                           merge(@, EntityKey, IndicatorTypeDefaults, indicator_type)],
                      Tail(df))

RECURSIVE ingest_indicators(_, _)
ingest_indicators(session, df) ==
    IF df = << >> THEN session
    ELSE LET row == Head(df)
             indicator_id == normalise_indicator_id(Get(row, "ID_indicateurs"))
             indicator ==
                 [id |-> indicator_id,
                  label |-> Or(normalise_str(Get(row, "Libelle_indicateurs")), EmptyStr),
                  description |-> normalise_str(Get(row, "Description")),
                  api_available |-> normalise_str(Get(row, "API disponible")) # Null]
         IN  IF indicator_id = Null THEN ingest_indicators(session, Tail(df))
             ELSE ingest_indicators(
                      [session EXCEPT !.indicators =
                           merge(@, EntityKey, IndicatorDefaults, indicator)],
                      Tail(df))

---------------------------------------------------------------------------
(* Link sheets.  A defaultdict(set) is the set of its << key, member >>    *)
(* pairs; need_categories is a set of << need, category >> pairs holding   *)
(* at most one pair per need.                                              *)

Keys(pairs) == { p[1] : p \in pairs }

Members(pairs, k) == { p[2] : p \in { q \in pairs : q[1] = k } }

NeedColumns == << "Besoin 1", "Besoin 2", "Besoin 3", "Besoin 4", "Besoin 5" >>

\* need_links_rows without the test `need in need_ids` of line 162.
RECURSIVE need_links_rows_unfiltered(_, _, _)
need_links_rows_unfiltered(acc, need_ids, df) ==
    IF df = << >> THEN acc
    ELSE LET row == Head(df)
             indicator_id == normalise_indicator_id(Get(row, "ID_Indicateurs"))
             base_need == Or(normalise_str(Get(row, "ID_Besoin")),
                             normalise_str(Get(row, "Besoin 1")))
             extra_needs == { normalise_str(Get(row, NeedColumns[k])) :
                                 k \in DOMAIN NeedColumns } \ { Null }
             needs == (IF base_need = Null THEN {} ELSE { base_need })
                          \cup extra_needs
             category == Or(normalise_str(Get(row, "Type_de_besoins")),
                            normalise_str(Get(row, "Type de besoins")))
             cats == IF category = Null THEN acc.need_categories
                     ELSE acc.need_categories \cup
                              { << n, category >> :
                                    n \in needs \ Keys(acc.need_categories) }
         IN  IF indicator_id = Null \/ needs = {}
             THEN need_links_rows_unfiltered(acc, need_ids, Tail(df))
             ELSE need_links_rows_unfiltered(
                      [indicator_to_needs |->
                           acc.indicator_to_needs \cup
                               { << indicator_id, n >> : n \in needs },
                       need_to_indicators |->
                           acc.need_to_indicators \cup
                               { << n, indicator_id >> : n \in needs },
                       need_categories |-> cats],
                      need_ids, Tail(df))

\* Lines 149-169: the loop over the rows of the need-link sheet.
RECURSIVE need_links_rows(_, _, _)
need_links_rows(acc, need_ids, df) ==
    IF df = << >> THEN acc
    ELSE LET row == Head(df)
             indicator_id == normalise_indicator_id(Get(row, "ID_Indicateurs"))
             base_need == Or(normalise_str(Get(row, "ID_Besoin")),
                             normalise_str(Get(row, "Besoin 1")))
             extra_needs == { normalise_str(Get(row, NeedColumns[k])) :
                                 k \in DOMAIN NeedColumns } \ { Null }
             needs == ((IF base_need = Null THEN {} ELSE { base_need })
                           \cup extra_needs) \cap need_ids
             category == Or(normalise_str(Get(row, "Type_de_besoins")),
                            normalise_str(Get(row, "Type de besoins")))
             cats == IF category = Null THEN acc.need_categories
                     ELSE acc.need_categories \cup
                              { << n, category >> :
                                    n \in needs \ Keys(acc.need_categories) }
         IN  IF indicator_id = Null \/ needs = {}
             THEN need_links_rows(acc, need_ids, Tail(df))
             ELSE need_links_rows(
                      [indicator_to_needs |->
                           acc.indicator_to_needs \cup
                               { << indicator_id, n >> : n \in needs },
                       need_to_indicators |->
                           acc.need_to_indicators \cup
                               { << n, indicator_id >> : n \in needs },
                       need_categories |-> cats],
                      need_ids, Tail(df))

\* write_indicators extending the stored list instead of assigning it.
write_indicators_extend(indicators, pairs, attr) ==
    { IF r.id \in Keys(pairs)
      THEN [r EXCEPT ![attr] = @ \o sorted(Members(pairs, r.id))]
      ELSE r : r \in indicators }

\* Lines 171-175 (and 214-218, 246-250): the write-back on the indicators.
write_indicators(indicators, pairs, attr) ==
    { IF r.id \in Keys(pairs)
      THEN [r EXCEPT ![attr] = sorted(Members(pairs, r.id))]
      ELSE r : r \in indicators }

\* Lines 220-224 (and 252-256): the write-back on objectives and types.
write_targets(targets, pairs) ==
    { IF r.id \in Keys(pairs)
      THEN [r EXCEPT !.indicator_ids = sorted(Members(pairs, r.id))]
      ELSE r : r \in targets }

\* Lines 177-183: the write-back on the needs.
write_needs(needs, pairs, need_categories) ==
    { IF r.id \in Keys(pairs)
      THEN [r EXCEPT !.indicator_ids = sorted(Members(pairs, r.id)),
                     !.category = IF r.id \in Keys(need_categories)
                                  THEN CHOOSE c \in Members(need_categories, r.id) : TRUE
                                  ELSE @]
      ELSE r : r \in needs }

ingest_indicator_need_links(session, df) ==
    LET need_ids == Ids(session.needs)
        acc == need_links_rows(
                   [indicator_to_needs |-> {}, need_to_indicators |-> {},
                    need_categories |-> {}],
                   need_ids, df)
    IN  [session EXCEPT
             !.indicators = write_indicators(@, acc.indicator_to_needs, "need_ids"),
             !.needs = write_needs(@, acc.need_to_indicators, acc.need_categories)]

\* Lines 202-206: objective code -> flag column.
ObjectiveMapping ==
    << << << "o", "1" >>, "o1_Subsistance" >>,
       << << "o", "2" >>, "o2_Gestion-de-crise" >>,
       << << "o", "3" >>, "o3_Soutenabilite" >> >>

\* Lines 236-239: type id -> flag column.
TypeEntries ==
    << << << "T", "y", "p", "1" >>, "Typ1_Etat" >>,
       << << "T", "y", "p", "2" >>, "Typ2_Action" >> >>

\* Lines 198-212 and 232-244: the loop over the rows of a flag-column sheet.
RECURSIVE flag_links_rows(_, _, _, _, _)
flag_links_rows(acc, target_ids, mapping, id_column, df) ==
    IF df = << >> THEN acc
    ELSE LET row == Head(df)
             indicator_id == normalise_indicator_id(Get(row, id_column))
             hits == { mapping[k][1] : k \in
                         { j \in DOMAIN mapping :
                               /\ mapping[j][1] \in target_ids
                               /\ _flag(Get(row, mapping[j][2])) } }
         IN  IF indicator_id = Null
             THEN flag_links_rows(acc, target_ids, mapping, id_column, Tail(df))
             ELSE flag_links_rows(
                      [indicator_to |-> acc.indicator_to \cup
                                            { << indicator_id, t >> : t \in hits },
                       to_indicators |-> acc.to_indicators \cup
                                            { << t, indicator_id >> : t \in hits }],
                      target_ids, mapping, id_column, Tail(df))

ingest_indicator_objective_links(session, df) ==
    LET objective_ids == Ids(session.objectives)
        acc == flag_links_rows([indicator_to |-> {}, to_indicators |-> {}],
                               objective_ids, ObjectiveMapping, "ID_Indicateurs", df)
    IN  [session EXCEPT
             !.indicators = write_indicators(@, acc.indicator_to, "objective_ids"),
             !.objectives = write_targets(@, acc.to_indicators)]

ingest_indicator_type_links(session, df) ==
    LET type_ids == Ids(session.types)
        acc == flag_links_rows([indicator_to |-> {}, to_indicators |-> {}],
                               type_ids, TypeEntries, "ID_indicateurs", df)
    IN  [session EXCEPT
             !.indicators = write_indicators(@, acc.indicator_to, "type_ids"),
             !.types = write_targets(@, acc.to_indicators)]

---------------------------------------------------------------------------
(* Numbers (lines 58-73).  A cell is Null or a text; a numeric cell is     *)
(* the text str() gives it.                                                *)

RECURSIVE Pow10(_)
Pow10(n) == IF n = 0 THEN 1 ELSE 10 * Pow10(n - 1)

RECURSIVE Gcd(_, _)
Gcd(a, b) == IF b = 0 THEN a ELSE Gcd(b, a % b)

\* The whole number of the sign and digits given: Some(n) up to nine
\* digits, the digits themselves beyond.
IntValue(neg, digits) ==
    IF Len(digits) > 9 THEN << "int", neg, digits >>
    ELSE IF neg THEN Some(0 - DigitsToInt(digits))
    ELSE Some(DigitsToInt(digits))

\* The float of a number: Some(n) when whole, << "num", p, q >> for the
\* fraction p/q, and the digits and exponent themselves when these do not
\* fit.
FloatValue(n) ==
    LET digits == RStripZeros(n[3])
        exp == n[4] + (Len(n[3]) - Len(digits))
    IN  IF digits = << >> \/ Len(digits) + exp < 0 - FloatMinExp THEN Some(0)
        ELSE IF exp >= 0 /\ Len(digits) + exp <= 9
        THEN IntValue(n[2], digits \o Zeros(exp))
        ELSE IF exp < 0 /\ Len(digits) <= 9 /\ exp >= -9
        THEN LET p == DigitsToInt(digits)
                 q == Pow10(0 - exp)
                 g == Gcd(p, q)
             IN  << "num", (IF n[2] THEN 0 - p ELSE p) \div g, q \div g >>
        ELSE << "float", n[2], digits, exp >>

\* int(x) of a float, inside the try of lines 61-64: ValueError (no float,
\* or nan) is caught and gives orelse, OverflowError (inf) is not caught.
IntOfFloat(x, orelse) ==
    IF x = Null \/ x = << "nan" >> THEN orelse
    ELSE IF x[1] = "inf" THEN Raise("OverflowError")
    ELSE IF Exact(x) THEN IntValue(x[2], IntegerDigits(x))
    ELSE << "int~", x[2], IntegerDigits(x) >>

\* to_int giving 0 for a cell that is no number.
to_int_or_zero(value) ==
    IF value = Null THEN Some(0) ELSE IntOfFloat(FloatLiteral(value), Some(0))

\* Lines 58-64.
to_int(value) ==
    IF value = Null THEN Null ELSE IntOfFloat(FloatLiteral(value), Null)

\* The value of a float: nan and inf are themselves.
FloatOrNull(x) ==
    IF x = Null THEN Null
    ELSE IF x[1] \in { "nan", "inf" } THEN x
    ELSE FloatValue(x)

\* Lines 67-73.
to_float(value) ==
    IF value = Null THEN Null ELSE FloatOrNull(FloatLiteral(value))

---------------------------------------------------------------------------
(* Territorial units (lines 259-287).  The headers of the sheet are taken  *)
(* after the renaming of line 260.                                         *)

\* A source tag is one opaque token: no function reads its characters.
s_source_epci == << "Excel/Table EPCI" >>

\* The exception the first of the values that is one raises, "" when none is.
RECURSIVE Raised_by(_)
Raised_by(values) ==
    IF values = << >> THEN ""
    ELSE IF Raises(Head(values)) THEN Head(values)[2]
    ELSE Raised_by(Tail(values))

\* Lines 261-287, of one row: epci holds the values lines 262 and 266-285
\* compute, in that order.
RECURSIVE ingest_epcis(_, _)
ingest_epci(session, df, epci) ==
    IF Raised_by(<< epci.id >>) # ""
    THEN [session |-> session, exc |-> Raised_by(<< epci.id >>)]
    ELSE IF epci.id = Null THEN ingest_epcis(session, Tail(df))
    ELSE IF Raised_by(<< epci.department_code, epci.population_total,
                         epci.area_km2 >>) # ""
    THEN [session |-> session,
          exc |-> Raised_by(<< epci.department_code, epci.population_total,
                               epci.area_km2 >>)]
    ELSE ingest_epcis(
             [session EXCEPT !.epcis = merge(@, EntityKey, EpciDefaults, epci)],
             Tail(df))

EpciOfRow(row) ==
    [id |-> normalise_code(Get(row, "siren")),
     department_code |-> normalise_code(Get(row, "dept")),
     label |-> Or(normalise_str(Get(row, "epci_libelle")), EmptyStr),
     legal_form |-> normalise_str(Get(row, "nature_juridique")),
     population_total |-> to_int(Get(row, "total_pop_tot")),
     area_km2 |-> to_float(Get(row, "superficie_km2")),
     source |-> s_source_epci]

ingest_epcis(session, df) ==
    IF df = << >> THEN [session |-> session, exc |-> ""]
    ELSE ingest_epci(session, df, EpciOfRow(Head(df)))

---------------------------------------------------------------------------
(* Value and score matrices (lines 290-411).  A matrix sheet is            *)
(* [columns |-> its headers, rows |-> its rows of cells].                  *)

s_ID_EPCI == << "I", "D", "_", "E", "P", "C", "I" >>
s_LIBELLE_EPCI == << "L", "I", "B", "E", "L", "L", "E", "_", "E", "P", "C", "I" >>
s_id_epci == << "i", "d", "_", "e", "p", "c", "i" >>
s_code_epci == << "c", "o", "d", "e", "_", "e", "p", "c", "i" >>
s_libelle_epci == << "l", "i", "b", "e", "l", "l", "e", "_", "e", "p", "c", "i" >>
s_value == << "v", "a", "l", "u", "e" >>
s_score == << "s", "c", "o", "r", "e" >>

_normalise_columns(df) ==
    [df EXCEPT !.columns = [k \in DOMAIN @ |-> Strip(@[k])]]

\* while "__" in text: text = text.replace("__", "_")
RECURSIVE CollapseUnderscores(_)
CollapseUnderscores(s) ==
    IF Len(s) < 2 THEN s
    ELSE IF s[1] = "_" /\ s[2] = "_" THEN CollapseUnderscores(Tail(s))
    ELSE << s[1] >> \o CollapseUnderscores(Tail(s))

\* The characters of the model carry no accent: NFKD leaves them as they are.
_normalize_column_name(name) ==
    CollapseUnderscores(Lower(ReplaceChar(ReplaceChar(name, " ", "_"), "-", "_")))

\* The first column whose normalised name is a candidate; Null when the
\* function raises ValueError (_detect_epci_column) or returns None
\* (_detect_epci_label_column).
FirstColumn(df, candidates) ==
    LET hits == { k \in DOMAIN df.columns :
                      _normalize_column_name(df.columns[k]) \in candidates }
    IN  IF hits = {} THEN Null
        ELSE df.columns[CHOOSE k \in hits : \A j \in hits : k <= j]

\* _detect_epci_column taking the first column when no candidate is found.
_detect_epci_column_first(df) ==
    LET found == FirstColumn(df, { s_id_epci, s_code_epci })
    IN  IF found = Null /\ df.columns # << >> THEN df.columns[1] ELSE found

_detect_epci_column(df) == FirstColumn(df, { s_id_epci, s_code_epci })

_detect_epci_label_column(df) == FirstColumn(df, { s_libelle_epci })

_detect_indicator_columns(df) ==
    SelectSeq(df.columns, LAMBDA col : StartsWith(Lower(Strip(col)), << "i" >>))

\* df.rename(columns=rename_map) of lines 342-351.
_attach_epci_metadata(df, id_column, label_column) ==
    [df EXCEPT !.columns =
         [k \in DOMAIN @ |->
              IF @[k] = id_column THEN s_ID_EPCI
              ELSE IF label_column # Null /\ @[k] = label_column THEN s_LIBELLE_EPCI
              ELSE @[k]]]

RECURSIVE Flatten(_)
Flatten(ss) == IF ss = << >> THEN << >> ELSE Head(ss) \o Flatten(Tail(ss))

\* The order-keeping list of the distinct members of a sequence.
RECURSIVE Unique(_)
Unique(s) ==
    IF s = << >> THEN << >>
    ELSE LET front == Unique(SubSeq(s, 1, Len(s) - 1))
         IN  IF s[Len(s)] \in Range(front) THEN front ELSE Append(front, s[Len(s)])

ColumnIndex(df, name) == CHOOSE k \in DOMAIN df.columns : df.columns[k] = name

Cell(df, r, name) == df.rows[r][ColumnIndex(df, name)]

\* metadata = df[metadata_columns].drop_duplicates() of lines 352-355.
epci_metadata(df, label_column) ==
    Unique([r \in DOMAIN df.rows |->
               [ID_EPCI |-> Cell(df, r, s_ID_EPCI),
                LIBELLE_EPCI |-> IF label_column = Null THEN Null
                                 ELSE Cell(df, r, s_LIBELLE_EPCI)]])

\* _melt_indicator_values with dropna(how="all"): a long row is dropped
\* only when both its value and its unit id are null.
_melt_indicator_values_how_all(df, value_columns, id_column, value_column_name) ==
    LET labels == << id_column >> \o value_columns
        stacked == SelectSeq(Unique(labels), LAMBDA c : c # id_column)
        melted == Flatten([k \in DOMAIN stacked |->
                              [r \in DOMAIN df.rows |->
                                   [ID_EPCI |-> Cell(df, r, id_column),
                                    indicator_id |-> stacked[k],
                                    value |-> Cell(df, r, stacked[k])]]])
    IN  IF value_column_name \in Range(df.columns)
        THEN [exc |-> "ValueError", rows |-> << >>]
        ELSE IF ~ (Range(labels) \subseteq Range(df.columns))
        THEN [exc |-> "KeyError", rows |-> << >>]
        ELSE [exc |-> "",
              rows |-> SelectSeq(melted,
                                 LAMBDA row : row.value # Null \/ row.ID_EPCI # Null)]

\* DataFrame.melt then dropna (lines 296-297).  melt raises ValueError when
\* a column already bears the value name and KeyError when a named column
\* is missing; it takes the named columns once each, the id column first,
\* and stacks the other ones column after column.
_melt_indicator_values(df, value_columns, id_column, value_column_name) ==
    LET labels == << id_column >> \o value_columns
        stacked == SelectSeq(Unique(labels), LAMBDA c : c # id_column)
        melted == Flatten([k \in DOMAIN stacked |->
                              [r \in DOMAIN df.rows |->
                                   [ID_EPCI |-> Cell(df, r, id_column),
                                    indicator_id |-> stacked[k],
                                    value |-> Cell(df, r, stacked[k])]]])
    IN  IF value_column_name \in Range(df.columns)
        THEN [exc |-> "ValueError", rows |-> << >>]
        ELSE IF ~ (Range(labels) \subseteq Range(df.columns))
        THEN [exc |-> "KeyError", rows |-> << >>]
        ELSE [exc |-> "",
              rows |-> SelectSeq(melted,
                                 LAMBDA row : row.value # Null /\ row.ID_EPCI # Null)]

\* long_df.merge(metadata, on="ID_EPCI", how="left") of lines 369 and 397.
merge_metadata(long_df, metadata) ==
    Flatten([k \in DOMAIN long_df |->
                LET hits == SelectSeq(metadata,
                                      LAMBDA m : m.ID_EPCI = long_df[k].ID_EPCI)
                IN  [j \in DOMAIN hits |->
                         [ID_EPCI |-> long_df[k].ID_EPCI,
                          indicator_id |-> long_df[k].indicator_id,
                          value |-> long_df[k].value,
                          LIBELLE_EPCI |-> hits[j].LIBELLE_EPCI]]])

\* long_rows raising where lines 364-366 and 392-394 return.
long_rows_no_skip(df0, value_column_name) ==
    LET df1 == _normalise_columns(df0)
        id_column == _detect_epci_column(df1)
        label_column == _detect_epci_label_column(df1)
        indicator_cols == _detect_indicator_columns(df1)
        df == _attach_epci_metadata(df1, id_column, label_column)
        melted == _melt_indicator_values(df, indicator_cols, s_ID_EPCI,
                                         value_column_name)
    IN  IF id_column = Null \/ indicator_cols = << >>
        THEN [exc |-> "ValueError", skipped |-> FALSE, rows |-> << >>]
        ELSE [exc |-> melted.exc, skipped |-> FALSE,
              rows |-> IF melted.exc # "" THEN << >>
                       ELSE merge_metadata(melted.rows,
                                           epci_metadata(df, label_column))]

\* Lines 360-369 and 388-397: from the sheet to the long rows.  exc names
\* the exception raised, "" when none is; skipped tells the early return.
long_rows(df0, value_column_name) ==
    LET df1 == _normalise_columns(df0)
        id_column == _detect_epci_column(df1)
        label_column == _detect_epci_label_column(df1)
        indicator_cols == _detect_indicator_columns(df1)
        df == _attach_epci_metadata(df1, id_column, label_column)
        melted == _melt_indicator_values(df, indicator_cols, s_ID_EPCI,
                                         value_column_name)
    IN  IF id_column = Null
        THEN [exc |-> "ValueError", skipped |-> FALSE, rows |-> << >>]
        ELSE IF indicator_cols = << >>
        THEN [exc |-> "", skipped |-> TRUE, rows |-> << >>]
        ELSE [exc |-> melted.exc, skipped |-> FALSE,
              rows |-> IF melted.exc # "" THEN << >>
                       ELSE merge_metadata(melted.rows,
                                           epci_metadata(df, label_column))]

\* The attributes of the mapped classes (models/diag360_raw.py): the
\* constructor of a mapped class raises TypeError for any other keyword.
IndicatorValueAttrs == DOMAIN IndicatorValueDefaults \cup { "date_import" }

IndicatorScoreAttrs == DOMAIN IndicatorScoreDefaults \cup { "updated_at" }

s_source_values == << "Excel/Table Valeurs" >>

\* Lines 370-384: the loop over the long rows of the value matrix.
RECURSIVE values_rows(_, _)
values_rows(session, rows) ==
    IF rows = << >> THEN [session |-> session, exc |-> ""]
    ELSE LET row == Head(rows)
             epci == normalise_code(row.ID_EPCI)
             indicator_id == normalise_indicator_id(row.indicator_id)
             record == [epci_id |-> epci,
                        indicator_id |-> indicator_id,
                        year |-> 0,
                        value |-> to_float(row.value),
                        source |-> s_source_values,
                        libelle_epci |-> normalise_str(row.LIBELLE_EPCI)]
             raised == Raised_by(<< epci, indicator_id >>)
         IN  IF raised # "" THEN [session |-> session, exc |-> raised]
             ELSE IF epci = Null \/ indicator_id = Null
             THEN values_rows(session, Tail(rows))
             ELSE IF ~ (DOMAIN record \subseteq IndicatorValueAttrs)
             THEN [session |-> session, exc |-> "TypeError"]
             ELSE values_rows(
                      [session EXCEPT !.values =
                           merge(@, FactKey, IndicatorValueDefaults, record)],
                      Tail(rows))

\* ingest_indicator_values emptying the table before it loads the sheet.
ingest_indicator_values_reloading(session, df) ==
    LET long_df == long_rows(df, s_value)
    IN  IF long_df.exc # "" THEN [session |-> session, exc |-> long_df.exc]
        ELSE values_rows([session EXCEPT !.values = {}], long_df.rows)

ingest_indicator_values(session, df) ==
    LET long_df == long_rows(df, s_value)
    IN  IF long_df.exc # "" THEN [session |-> session, exc |-> long_df.exc]
        ELSE values_rows(session, long_df.rows)

\* Lines 398-411: the loop over the long rows of the score matrix.
RECURSIVE scores_rows(_, _)
scores_rows(session, rows) ==
    IF rows = << >> THEN [session |-> session, exc |-> ""]
    ELSE LET row == Head(rows)
             epci == normalise_code(row.ID_EPCI)
             indicator_id == normalise_indicator_id(row.indicator_id)
             record == [epci_id |-> epci,
                        indicator_id |-> indicator_id,
                        year |-> 0,
                        indicator_score |-> to_float(row.value),
                        libelle_epci |-> normalise_str(row.LIBELLE_EPCI)]
             raised == Raised_by(<< epci, indicator_id >>)
         IN  IF raised # "" THEN [session |-> session, exc |-> raised]
             ELSE IF epci = Null \/ indicator_id = Null
             THEN scores_rows(session, Tail(rows))
             ELSE IF ~ (DOMAIN record \subseteq IndicatorScoreAttrs)
             THEN [session |-> session, exc |-> "TypeError"]
             ELSE scores_rows(
                      [session EXCEPT !.scores =
                           merge(@, FactKey, IndicatorScoreDefaults, record)],
                      Tail(rows))

ingest_indicator_scores(session, df) ==
    LET long_df == long_rows(df, s_score)
    IN  IF long_df.exc # "" THEN [session |-> session, exc |-> long_df.exc]
        ELSE scores_rows(session, long_df.rows)

---------------------------------------------------------------------------
(* The workbooks of the model.  A workbook maps the names of the sheets    *)
(* it holds to the sheets; xl.get(name) is None for any other name.        *)

N1 == << "N", "1" >>
N2 == << "N", "2" >>
N9 == << "N", "9" >>
i001 == << "i", "0", "0", "1" >>
i002 == << "i", "0", "0", "2" >>
i003 == << "i", "0", "0", "3" >>
o1 == << "o", "1" >>
o2 == << "o", "2" >>
Typ1 == << "T", "y", "p", "1" >>
Typ2 == << "T", "y", "p", "2" >>

NeedsSheets ==
    << [columns |-> << "ID_besoins", "Libelle" >>,
        rows |-> << << << " ", "N", "1" >>, << "a" >> >>,
                    << Null, << "b" >> >> >>],
       [columns |-> << "ID_besoins", "Libelle", "Type_de_besoins" >>,
        rows |-> << << N1, Null, << "c" >> >>,
                    << N2, << "b" >>, Null >> >>] >>

ObjectivesSheets ==
    << [columns |-> << "ID_Objectifs", "Libelle" >>,
        rows |-> << << o1, << "s" >> >> >>],
       [columns |-> << "ID_Objectifs", "Libelle" >>,
        rows |-> << << o1, << "s" >> >>, << o2, << "g" >> >> >>] >>

TypesSheets ==
    << [columns |-> << "ID_", "Libelle" >>,
        rows |-> << << Typ1, << "e" >> >> >>],
       [columns |-> << "ID_", "Libelle" >>,
        rows |-> << >>] >>

IndicatorsSheets ==
    << [columns |-> << "ID_indicateurs", "Libelle_indicateurs", "API disponible" >>,
        rows |-> << << << "I", " ", "1" >>, << "p" >>, << "o", "u", "i" >> >> >>],
       [columns |-> << "ID_indicateurs", "Libelle_indicateurs", "API disponible" >>,
        rows |-> << << i001, << "p" >>, Null >>,
                    << << "2" >>, << "q" >>, << "n", "o", "n" >> >> >>] >>

NeedLinksSheets ==
    << [columns |-> << "ID_Indicateurs", "ID_Besoin", "Type_de_besoins" >>,
        rows |-> << << i001, N1, << "k" >> >> >>],
       [columns |-> << "ID_Indicateurs", "ID_Besoin", "Besoin 1", "Besoin 2",
                       "Type de besoins" >>,
        rows |-> << << << "2" >>, Null, N1, N2, << "m" >> >>,
                    << i001, N9, Null, N2, << "k" >> >> >>],
       [columns |-> << "ID_Indicateurs", "ID_Besoin" >>,
        rows |-> << << i003, N1 >>, << i002, N9 >> >>] >>

ObjectiveLinksSheets ==
    << [columns |-> << "ID_Indicateurs", "o1_Subsistance", "o2_Gestion-de-crise" >>,
        rows |-> << << i001, << "x" >>, << "X" >> >> >>],
       [columns |-> << "ID_Indicateurs", "o1_Subsistance", "o2_Gestion-de-crise" >>,
        rows |-> << << i002, << "n", "o", "n" >>, << "t", "r", "u", "e" >> >>,
                    << i003, << "1" >>, Null >> >>] >>

TypeLinksSheets ==
    << [columns |-> << "ID_indicateurs", "Typ1_Etat", "Typ2_Action" >>,
        rows |-> << << i001, << "o", "u", "i" >>, << "1" >> >> >>],
       [columns |-> << "ID_indicateurs", "Typ1_Etat", "Typ2_Action" >>,
        rows |-> << << i002, << "x" >>, Null >> >>] >>

EpcisSheets ==
    << [columns |-> << "siren", "dept", "epci_libelle", "total_pop_tot",
                       "superficie_km2" >>,
        rows |-> << << << "7", ".", "0" >>, << "0", "1" >>, << "u" >>,
                       << "1", "2" >>, << "x" >> >> >>] >>

s_Code_EPCI == << "C", "o", "d", "e", "_", "E", "P", "C", "I" >>
s_EPCI == << "E", "P", "C", "I" >>
s_I_2 == << "I", " ", "2" >>
s_10 == << "1", "0" >>
s_5 == << "5" >>
s_A == << "A" >>
s_B == << "B" >>

\* The matrix sheets of the workbooks: (1) no unit-id header; (2) no
\* indicator header; (3) and (4) cells to store; (5) no cell to store;
\* (6) a unit-id header spelt id_epci; (7) neither a unit-id header nor an
\* indicator header.
MatrixSheets ==
    << [columns |-> << s_EPCI, i001 >>,
        rows |-> << << s_A, s_10 >> >>],
       [columns |-> << s_Code_EPCI, s_LIBELLE_EPCI >>,
        rows |-> << << s_A, << "u" >> >> >>],
       [columns |-> << s_ID_EPCI, i001, i002 >>,
        rows |-> << << s_A, s_10, Null >>, << s_B, Null, s_5 >> >>],
       [columns |-> << s_Code_EPCI, s_I_2, s_LIBELLE_EPCI >>,
        rows |-> << << s_A, s_5, << "u" >> >>, << Null, s_10, Null >> >>],
       [columns |-> << s_Code_EPCI, i001 >>,
        rows |-> << << s_A, Null >>, << Null, s_5 >> >>],
       [columns |-> << s_id_epci, i001 >>,
        rows |-> << << s_A, s_10 >> >>],
       [columns |-> << s_EPCI, s_LIBELLE_EPCI >>,
        rows |-> << << s_A, << "u" >> >> >>] >>

NoSheets == [n \in {} |-> n]

RefSheets ==
    << ("Table Besoins" :> NeedsSheets[1]) @@ ("Table Objectifs" :> ObjectivesSheets[1])
           @@ ("Table Type indicateurs" :> TypesSheets[1])
           @@ ("Table Indicateurs-Sources" :> IndicatorsSheets[1]),
       ("Table Besoins" :> NeedsSheets[2]) @@ ("Table Objectifs" :> ObjectivesSheets[2])
           @@ ("Table Type indicateurs" :> TypesSheets[2])
           @@ ("Table Indicateurs-Sources" :> IndicatorsSheets[2]) >>

LinkSheets ==
    << ("Correspondance Indicateurs-Beso" :> NeedLinksSheets[1])
           @@ ("Correspondance Indicateurs-Obje" :> ObjectiveLinksSheets[1])
           @@ ("Correspondance Indicateurs-Type" :> TypeLinksSheets[1]),
       ("Correspondance Indicateurs-Beso" :> NeedLinksSheets[2])
           @@ ("Correspondance Indicateurs-Obje" :> ObjectiveLinksSheets[2])
           @@ ("Correspondance Indicateurs-Type" :> TypeLinksSheets[2]),
       ("Correspondance Indicateurs-Beso" :> NeedLinksSheets[3])
           @@ ("Correspondance Indicateurs-Obje" :> ObjectiveLinksSheets[1])
           @@ ("Correspondance Indicateurs-Type" :> TypeLinksSheets[2]) >>

FactSheets ==
    << ("Table EPCI" :> EpcisSheets[1]) @@ ("Table Valeurs" :> MatrixSheets[1])
           @@ ("Table Scores indicateurs" :> MatrixSheets[2]),
       ("Table EPCI" :> EpcisSheets[1]) @@ ("Table Valeurs" :> MatrixSheets[2])
           @@ ("Table Scores indicateurs" :> MatrixSheets[2]),
       ("Table EPCI" :> EpcisSheets[1]) @@ ("Table Valeurs" :> MatrixSheets[3])
           @@ ("Table Scores indicateurs" :> MatrixSheets[2]),
       ("Table EPCI" :> EpcisSheets[1]) @@ ("Table Valeurs" :> MatrixSheets[5])
           @@ ("Table Scores indicateurs" :> MatrixSheets[4]),
       ("Table EPCI" :> EpcisSheets[1]) @@ ("Table Valeurs" :> MatrixSheets[2])
           @@ ("Table Scores indicateurs" :> MatrixSheets[7]),
       ("Table EPCI" :> EpcisSheets[1]) @@ ("Table Valeurs" :> MatrixSheets[5])
           @@ ("Table Scores indicateurs" :> MatrixSheets[6]),
       ("Table EPCI" :> EpcisSheets[1]) @@ ("Table Valeurs" :> MatrixSheets[5])
           @@ ("Table Scores indicateurs" :> MatrixSheets[5]) >>

\* The files that hold the ten sheets.
Workbooks ==
    { RefSheets[r] @@ LinkSheets[l] @@ FactSheets[f] :
          r \in DOMAIN RefSheets, l \in DOMAIN LinkSheets, f \in DOMAIN FactSheets }

\* Files that lack one of the ten sheets, or all of them.
PartialFiles ==
    { NoSheets } \cup
        { [n \in DOMAIN w \ { name } |-> w[n]] :
              w \in { RefSheets[1] @@ LinkSheets[1] @@ FactSheets[2] },
              name \in { "Table Besoins", "Correspondance Indicateurs-Type",
                         "Table EPCI", "Table Scores indicateurs" } }

---------------------------------------------------------------------------
(* ingest_workbook (lines 414-447) as a state machine                      *)

\* SHEETS_MAPPING with the link sheets listed before the entity sheets.
SHEETS_MAPPING_links_first ==
    << "Correspondance Indicateurs-Beso", "Correspondance Indicateurs-Obje",
       "Correspondance Indicateurs-Type", "Table Besoins", "Table Objectifs",
       "Table Type indicateurs", "Table Indicateurs-Sources",
       "Table EPCI", "Table Valeurs", "Table Scores indicateurs" >>

\* The keys of SHEETS_MAPPING, in the order of the dict.
SHEETS_MAPPING ==
    << "Table Besoins", "Table Objectifs", "Table Type indicateurs",
       "Table Indicateurs-Sources", "Correspondance Indicateurs-Beso",
       "Correspondance Indicateurs-Obje", "Correspondance Indicateurs-Type",
       "Table EPCI", "Table Valeurs", "Table Scores indicateurs" >>

VARIABLES
    db,       \* the committed store
    sess,     \* the store as the open session sees it
    wb,       \* the sheets of the file; xl once line 430 has read them
    pc,       \* "idle", "sheets" (in the for loop), "except", "finally", "done"
    sheet,    \* the position of the for loop in SHEETS_MAPPING
    exc,      \* the exception in flight, "" when there is none
    calls,    \* the handlers and session methods called by the run, in order
    before,   \* the committed store when the run began
    outcome,  \* of the run that ended: "none", "committed" or "raised"
    replay,   \* the run imports again the workbook just committed
    arg,      \* the argument of a function applied on its own
    result    \* << >> before the function is applied, then << what it returned >>

vars == << db, sess, wb, pc, sheet, exc, calls, before, outcome, replay, arg, result >>

\* The variables of the specifications that apply one function on its own.
pure == << arg, result >>

Init ==
    /\ db = EmptyStore
    /\ sess = EmptyStore
    /\ wb = NoSheets
    /\ pc = "idle"
    /\ sheet = 1
    /\ exc = ""
    /\ calls = << >>
    /\ before = EmptyStore
    /\ outcome = "none"
    /\ replay = FALSE
    /\ arg = Null
    /\ result = << >>

\* Lines 430-431: the file is read and a session opened.  read_excel is
\* given the ten names of SHEETS_MAPPING and returns the sheets of these
\* names; for a name the file lacks it raises ValueError (pandas.io.excel,
\* raise_if_bad_sheet_by_name), so that xl.get(sheet_name) is never None
\* at line 434 and lines 435-437 are never run.
Start(w, again) ==
    /\ wb' = w
    /\ replay' = again
    /\ sess' = db
    /\ before' = db
    /\ pc' = "sheets"
    /\ sheet' = 1
    /\ exc' = ""
    /\ calls' = << >>
    /\ outcome' = "none"
    /\ UNCHANGED << db, pure >>

Begin == pc = "idle" /\ \E w \in Workbooks : Start(w, FALSE)

\* Line 430 on a file that lacks a sheet: read_excel raises before the
\* session is opened and outside the try statement.
ReadFails ==
    /\ pc = "idle"
    /\ \E f \in PartialFiles : wb' = f
    /\ exc' = "ValueError"
    /\ outcome' = "raised"
    /\ before' = db
    /\ pc' = "done"
    /\ UNCHANGED << db, sess, sheet, calls, replay, pure >>

\* The same file is imported again, right after its import was committed.
BeginAgain == pc = "done" /\ outcome = "committed" /\ ~ replay /\ Start(wb, TRUE)

AtSheet(name) ==
    /\ pc = "sheets"
    /\ sheet <= Len(SHEETS_MAPPING)
    /\ SHEETS_MAPPING[sheet] = name

\* Returned with a commit after each sheet.
Returned_committing(func, session) ==
    /\ sess' = session
    /\ db' = session
    /\ calls' = Append(calls, func)
    /\ sheet' = sheet + 1
    /\ UNCHANGED << wb, pc, exc, before, outcome, replay, pure >>

\* Line 439, for a handler that returned.
Returned(func, session) ==
    /\ sess' = session
    /\ calls' = Append(calls, func)
    /\ sheet' = sheet + 1
    /\ UNCHANGED << db, wb, pc, exc, before, outcome, replay, pure >>

\* Line 439, for a handler that raised: control goes to the except clause.
Raised(func, session, e) ==
    /\ sess' = session
    /\ calls' = Append(calls, func)
    /\ exc' = e
    /\ pc' = "except"
    /\ UNCHANGED << db, wb, sheet, before, outcome, replay, pure >>

\* Lines 434-435: df is the sheet of the name, which xl holds.
Present(name) == AtSheet(name) /\ name \in DOMAIN wb

IngestNeeds ==
    /\ Present("Table Besoins")
    /\ Returned("ingest_needs", ingest_needs(sess, iter_rows(wb["Table Besoins"])))

IngestObjectives ==
    /\ Present("Table Objectifs")
    /\ Returned("ingest_objectives",
                ingest_objectives(sess, iter_rows(wb["Table Objectifs"])))

IngestIndicatorTypes ==
    /\ Present("Table Type indicateurs")
    /\ Returned("ingest_indicator_types",
                ingest_indicator_types(sess, iter_rows(wb["Table Type indicateurs"])))

IngestIndicators ==
    /\ Present("Table Indicateurs-Sources")
    /\ Returned("ingest_indicators",
                ingest_indicators(sess, iter_rows(wb["Table Indicateurs-Sources"])))

IngestIndicatorNeedLinks ==
    /\ Present("Correspondance Indicateurs-Beso")
    /\ Returned("ingest_indicator_need_links",
                ingest_indicator_need_links(
                    sess, iter_rows(wb["Correspondance Indicateurs-Beso"])))

IngestIndicatorObjectiveLinks ==
    /\ Present("Correspondance Indicateurs-Obje")
    /\ Returned("ingest_indicator_objective_links",
                ingest_indicator_objective_links(
                    sess, iter_rows(wb["Correspondance Indicateurs-Obje"])))

IngestIndicatorTypeLinks ==
    /\ Present("Correspondance Indicateurs-Type")
    /\ Returned("ingest_indicator_type_links",
                ingest_indicator_type_links(
                    sess, iter_rows(wb["Correspondance Indicateurs-Type"])))

IngestEpcis ==
    /\ Present("Table EPCI")
    /\ LET res == ingest_epcis(sess, iter_rows(wb["Table EPCI"]))
       IN  IF res.exc = "" THEN Returned("ingest_epcis", res.session)
           ELSE Raised("ingest_epcis", res.session, res.exc)

IngestIndicatorValues ==
    /\ Present("Table Valeurs")
    /\ LET res == ingest_indicator_values(sess, wb["Table Valeurs"])
       IN  IF res.exc = "" THEN Returned("ingest_indicator_values", res.session)
           ELSE Raised("ingest_indicator_values", res.session, res.exc)

IngestIndicatorScores ==
    /\ Present("Table Scores indicateurs")
    /\ LET res == ingest_indicator_scores(sess, wb["Table Scores indicateurs"])
       IN  IF res.exc = "" THEN Returned("ingest_indicator_scores", res.session)
           ELSE Raised("ingest_indicator_scores", res.session, res.exc)

\* Line 440: the commit makes the session's store the committed one.
Commit ==
    /\ pc = "sheets"
    /\ sheet = Len(SHEETS_MAPPING) + 1
    /\ db' = sess
    /\ calls' = Append(calls, "commit")
    /\ pc' = "finally"
    /\ UNCHANGED << sess, wb, sheet, exc, before, outcome, replay, pure >>

\* A commit that fails outside the try statement: no rollback.
CommitFails_unhandled ==
    /\ pc = "sheets"
    /\ sheet = Len(SHEETS_MAPPING) + 1
    /\ calls' = Append(calls, "commit failed")
    /\ exc' = "DBAPIError"
    /\ pc' = "finally"
    /\ UNCHANGED << db, sess, wb, sheet, before, outcome, replay, pure >>

\* Line 440, when the database refuses or loses the commit.
CommitFails ==
    /\ pc = "sheets"
    /\ sheet = Len(SHEETS_MAPPING) + 1
    /\ calls' = Append(calls, "commit failed")
    /\ exc' = "DBAPIError"
    /\ pc' = "except"
    /\ UNCHANGED << db, sess, wb, sheet, before, outcome, replay, pure >>

\* Lines 442-445: rollback, then the exception goes on to the caller.
Rollback ==
    /\ pc = "except"
    /\ sess' = db
    /\ calls' = Append(calls, "rollback")
    /\ pc' = "finally"
    /\ UNCHANGED << db, wb, sheet, exc, before, outcome, replay, pure >>

\* Lines 446-447: the session is closed and the call ends.
Close ==
    /\ pc = "finally"
    /\ sess' = db
    /\ calls' = Append(calls, "close")
    /\ outcome' = IF exc = "" THEN "committed" ELSE "raised"
    /\ pc' = "done"
    /\ UNCHANGED << db, wb, sheet, exc, before, replay, pure >>

\* The call is over; what the model remembers of it is dropped.
Forget ==
    /\ pc = "done"
    /\ pc' = "idle"
    /\ wb' = NoSheets
    /\ sheet' = 1
    /\ exc' = ""
    /\ calls' = << >>
    /\ before' = db
    /\ outcome' = "none"
    /\ replay' = FALSE
    /\ UNCHANGED << db, sess, pure >>

Next ==
    \/ Begin
    \/ ReadFails
    \/ BeginAgain
    \/ IngestNeeds
    \/ IngestObjectives
    \/ IngestIndicatorTypes
    \/ IngestIndicators
    \/ IngestIndicatorNeedLinks
    \/ IngestIndicatorObjectiveLinks
    \/ IngestIndicatorTypeLinks
    \/ IngestEpcis
    \/ IngestIndicatorValues
    \/ IngestIndicatorScores
    \/ Commit
    \/ CommitFails
    \/ Rollback
    \/ Close
    \/ Forget

Spec == Init /\ [][Next]_vars



---------------------------------------------------------------------------
(* _melt_indicator_values applied on its own, as lines 363-368 apply it,   *)
(* to sheets of at most MaxMeltRows rows whose unit-id column is ID_EPCI.  *)

MaxMeltRows == 2

MeltUnits == { Null, s_A, s_B }

MeltCells == { Null, s_5, s_10 }

MeltHeaders == { << i001 >>, << i001, i002 >> }

\* The rows of a sheet of n value columns.
MeltRow(n) ==
    { row \in [1..(n + 1) -> MeltUnits \cup MeltCells] :
          /\ row[1] \in MeltUnits
          /\ \A k \in 2..(n + 1) : row[k] \in MeltCells }

MeltSheets ==
    UNION { UNION { { [columns |-> << s_ID_EPCI >> \o h, rows |-> rows] :
                          rows \in [1..n -> MeltRow(Len(h))] } :
                    n \in 0..MaxMeltRows } :
            h \in MeltHeaders }

InitMelt ==
    /\ db = EmptyStore
    /\ sess = EmptyStore
    /\ wb = NoSheets
    /\ pc = "idle"
    /\ sheet = 1
    /\ exc = ""
    /\ calls = << >>
    /\ before = EmptyStore
    /\ outcome = "none"
    /\ replay = FALSE
    /\ arg \in MeltSheets
    /\ result = << >>

Melt ==
    /\ result = << >>
    /\ result' = << _melt_indicator_values(arg, _detect_indicator_columns(arg),
                                           s_ID_EPCI, s_value) >>
    /\ UNCHANGED << db, sess, wb, pc, sheet, exc, calls, before, outcome, replay, arg >>

NextMelt == Melt

SpecMelt == InitMelt /\ [][NextMelt]_vars

---------------------------------------------------------------------------
(* The canonicalisers of lines 28-73 and the storing of a numeric cell     *)
(* applied to one cell: arg is the cell, result the outcome of the         *)
(* function applied.                                                       *)

MaxTextLen == 3

TextChars == { " ", "-", ".", "0", "3", "e", "i" }

\* The texts of at most n characters of TextChars.
TextsUpTo(n) == UNION { [1..k -> TextChars] : k \in 0..n }

s_overflow == << "3" >> \o Zeros(FloatMaxDigits) \o << ".", "0" >>

\* Longer cells of interest: spellings of 3 and of 7, an id above 999, a
\* name in capitals, the names float() reads as numbers, a number of 310
\* digits.
TextExamples ==
    { << "3", ".", "0", "0" >>, << "3", ".", "0", "e", "0" >>,
      << "I", " ", "0", "0", "7" >>, << "i", "0", "0", "7" >>, << "i", "7" >>,
      << "7" >>, << "1", "2", "3", "4" >>, << "i", "1", "2", "3", "4" >>,
      << "A", "B", "C" >>, s_inf, << "-" >> \o s_inf, s_infinity, s_nan,
      << "N", "a", "N" >>, << "1", "e", "9", "9", "9" >>,
      << "1", "e", "-", "9", "9", "9" >>, << "0", ".", "4" >>, << "3", "_", "0" >>,
      s_overflow }

Cells == { Null } \cup TextsUpTo(MaxTextLen) \cup TextExamples

\* A sheet of one unit whose numeric cells are the cell given.
EpciSheet(cell) ==
    << [siren |-> s_1, total_pop_tot |-> cell, superficie_km2 |-> cell] >>

InitCell ==
    /\ db = EmptyStore
    /\ sess = EmptyStore
    /\ wb = NoSheets
    /\ pc = "idle"
    /\ sheet = 1
    /\ exc = ""
    /\ calls = << >>
    /\ before = EmptyStore
    /\ outcome = "none"
    /\ replay = FALSE
    /\ arg \in Cells
    /\ result = << >>

Applied(func, value) ==
    /\ result = << >>
    /\ result' = << func, value >>
    /\ UNCHANGED << db, sess, wb, pc, sheet, exc, calls, before, outcome, replay, arg >>

NormaliseCode == Applied("normalise_code", normalise_code(arg))

NormaliseIndicatorId == Applied("normalise_indicator_id", normalise_indicator_id(arg))

ToInt == Applied("to_int", to_int(arg))

ToFloat == Applied("to_float", to_float(arg))

\* ingest_epcis on a sheet of one unit: the outcome is the exception raised
\* or the unit in the session.
StoreEpci ==
    LET res == ingest_epcis(EmptyStore, EpciSheet(arg))
    IN  Applied("ingest_epcis",
                IF res.exc # "" THEN Raise(res.exc)
                ELSE << "stored", res.session.epcis >>)

NextCell == NormaliseCode \/ NormaliseIndicatorId \/ ToInt \/ ToFloat \/ StoreEpci

SpecCell == InitCell /\ [][NextCell]_vars

---------------------------------------------------------------------------
(* The read side: services/score_service.py and routers/scores.py.  A      *)
(* Numeric is Some(n) when whole and << "num", p, q >>, the reduced        *)
(* fraction p/q, otherwise; updated_at is not modelled.                    *)

\* The quotient p/q of a whole p >= 0 by a whole q > 0.
Ratio(p, q) ==
    IF p % q = 0 THEN Some(p \div q)
    ELSE << "num", p \div Gcd(p, q), q \div Gcd(p, q) >>

\* The number n/d of a Numeric.
Num(x) == x[2]

Den(x) == IF Len(x) = 3 THEN x[3] ELSE 1

RECURSIVE SumOf(_, _)
SumOf(rows, column) ==
    IF rows = {} THEN 0
    ELSE LET row == CHOOSE r \in rows : TRUE
         IN  Num(row[column]) + SumOf(rows \ { row }, column)

\* func.avg(column) over the rows of a group: NULLs are left out, and the
\* average of no value is NULL.  The scores of the model are whole.
avg(rows, column) ==
    LET given == { r \in rows : r[column] # Null }
    IN  IF given = {} THEN Null
        ELSE Ratio(SumOf(given, column), Cardinality(given))

\* func.max(IndicatorScore.year) of line 22.
max_year(scores) ==
    IF scores = {} THEN Null
    ELSE Some(CHOOSE y \in { f.year : f \in scores } :
                  \A f \in scores : f.year <= y)

\* _resolve_year taking the earliest year of the facts for the latest.
_resolve_year_earliest(store, year) ==
    IF year # Null THEN Num(year)
    ELSE IF store.scores = {} THEN 0
    ELSE CHOOSE y \in { f.year : f \in store.scores } :
             \A f \in store.scores : y <= f.year

\* Lines 19-25; the year asked for is Null or Some(year).
_resolve_year(store, year) ==
    IF year # Null THEN Num(year)
    ELSE IF max_year(store.scores) = Null THEN 0
    ELSE Num(max_year(store.scores))

\* text LIKE pattern: % stands for any text, _ for any one character.
RECURSIVE like(_, _)
like(text, pattern) ==
    IF pattern = << >> THEN text = << >>
    ELSE IF Head(pattern) = "%"
    THEN \/ like(text, Tail(pattern))
         \/ text # << >> /\ like(Tail(text), pattern)
    ELSE /\ text # << >>
         /\ Head(pattern) = "_" \/ Head(pattern) = Head(text)
         /\ like(Tail(text), Tail(pattern))

\* Lines 64-69: the filter on the label and on the unit id.
search_matches(epci, search) ==
    LET pattern == << "%" >> \o Lower(search) \o << "%" >>
    IN  like(Lower(epci.label), pattern) \/ like(Lower(epci.id), pattern)

\* Lines 44-62 and 115-133: the rows of summary_stmt, one for each unit
\* that has score facts of the year; the facts are joined to their unit.
summary_rows(store, target_year, units) ==
    { [epci_id |-> e.id,
       epci_label |-> e.label,
       department_code |-> e.department_code,
       region_code |-> e.region_code,
       global_score |->
           avg({ f \in store.scores : f.year = target_year /\ f.epci_id = e.id },
               "global_score"),
       indicator_count |->
           Cardinality({ f \in store.scores :
                             f.year = target_year /\ f.epci_id = e.id })] :
          e \in { u \in units :
                      \E f \in store.scores :
                          f.year = target_year /\ f.epci_id = u.id } }

\* The order of two Numerics.
NumLess(x, y) == Num(x) * Den(y) < Num(y) * Den(x)

\* ORDER BY leaves the order of rows of equal keys to the database: the
\* sequences that list every row once and no row before one that
\* Before(_, _) puts first.
Orderings(rows, Before(_, _)) ==
    { o \in [1..Cardinality(rows) -> rows] :
          /\ \A i, j \in DOMAIN o : i # j => o[i] # o[j]
          /\ \A i, j \in DOMAIN o : i < j => ~Before(o[j], o[i]) }

\* Lines 78-82: order_expr.
order_expr(order_by, a, b) ==
    IF order_by = "score"
    THEN /\ a.global_score # Null
         /\ b.global_score = Null \/ NumLess(b.global_score, a.global_score)
    ELSE IF order_by = "code" THEN StrLess(a.epci_id, b.epci_id)
    ELSE StrLess(a.epci_label, b.epci_label)

\* page counting its limit from the first row instead of from the offset.
page_from_start(ordered, limit, offset) ==
    IF limit < 0 \/ offset < 0 THEN [exc |-> "DataError", value |-> Null]
    ELSE [exc |-> "",
          value |-> SubSeq(ordered, offset + 1,
                           IF limit < Len(ordered) THEN limit ELSE Len(ordered))]

\* Lines 84-89: OFFSET and LIMIT, which PostgreSQL refuses when negative.
page(ordered, limit, offset) ==
    IF limit < 0 \/ offset < 0 THEN [exc |-> "DataError", value |-> Null]
    ELSE [exc |-> "",
          value |-> SubSeq(ordered, offset + 1,
                           IF offset + limit < Len(ordered)
                           THEN offset + limit ELSE Len(ordered))]

\* Lines 34-105, statement by statement: seen[1] is the store the statement
\* of _resolve_year reads (line 42), seen[2] the one the count reads (line
\* 71) and seen[3] the one the page reads (line 91).  The responses
\* list_scores may give, one for each order the database may return; search
\* is Null or a str.
list_scores_in(seen, search, limit, offset, order_by, year) ==
    LET target_year == _resolve_year(seen[1], year)
        Units(store) == IF search # Null /\ search # EmptyStr
                        THEN { e \in store.epcis : search_matches(e, search) }
                        ELSE store.epcis
        total == Cardinality(summary_rows(seen[2], target_year, Units(seen[2])))
        Before(a, b) == order_expr(order_by, a, b)
    IN  IF total = 0
        THEN { [exc |-> "", value |-> [items |-> << >>, total |-> 0]] }
        ELSE { LET items == page(o, limit, offset)
               IN  IF items.exc # "" THEN items
                   ELSE [exc |-> "",
                         value |-> [items |-> items.value, total |-> total]] :
                   o \in Orderings(summary_rows(seen[3], target_year,
                                                Units(seen[3])), Before) }

\* list_scores when every statement reads the same store.
list_scores(store, search, limit, offset, order_by, year) ==
    list_scores_in([k \in 1..3 |-> store], search, limit, offset, order_by, year)

\* The label of the entity an id names; the outer join gives NULL for none.
LabelOf(entities, id) ==
    IF \E e \in entities : e.id = id
    THEN (CHOOSE e \in entities : e.id = id).label
    ELSE Null

\* aggregate_rows with an entry for every entity, linked to a fact or not.
aggregate_rows_all(facts, entities, id_column, score_column) ==
    { [id |-> e.id,
       label |-> e.label,
       score |-> avg({ f \in facts : f[id_column] = e.id }, score_column)] :
          e \in entities }

\* Lines 149-195: the rows of one aggregate of the detail, grouped by the
\* id column of the facts that have one.
aggregate_rows(facts, entities, id_column, score_column) ==
    { [id |-> id,
       label |-> LabelOf(entities, id),
       score |-> avg({ f \in facts : f[id_column] = id }, score_column)] :
          id \in { f[id_column] : f \in facts } \ { Null } }

LabelBefore(a, b) ==
    /\ a.label # Null
    /\ b.label = Null \/ StrLess(a.label, b.label)

\* Lines 197-218: one row for each fact of the unit.
indicators_rows(store, facts) ==
    { [indicator_id |-> f.indicator_id,
       indicator_label |-> LabelOf(store.indicators, f.indicator_id),
       indicator_score |-> f.indicator_score,
       need_id |-> f.need_id,
       need_label |-> LabelOf(store.needs, f.need_id),
       need_score |-> f.need_score,
       objective_id |-> f.objective_id,
       objective_label |-> LabelOf(store.objectives, f.objective_id),
       objective_score |-> f.objective_score,
       type_id |-> f.type_id,
       type_label |-> LabelOf(store.types, f.type_id),
       type_score |-> f.type_score] :
          f \in { g \in facts : \E i \in store.indicators : i.id = g.indicator_id } }

IndicatorLabelBefore(a, b) == StrLess(a.indicator_label, b.indicator_label)

\* Lines 108-268, statement by statement: seen[1] is the store the
\* statement of _resolve_year reads (line 113), seen[2] to seen[6] the ones
\* the statements of lines 135, 149, 165, 181 and 197 read.  The outcomes
\* get_score_detail may have.
get_score_detail_in(seen, epci_id, year) ==
    LET target_year == _resolve_year(seen[1], year)
        summary_row ==
            summary_rows(seen[2], target_year,
                         { e \in seen[2].epcis : e.id = epci_id })
        Facts(store) == { f \in store.scores :
                              f.year = target_year /\ f.epci_id = epci_id }
    IN  IF summary_row = {}
        THEN { [exc |-> "ValueError", value |-> Null] }
        ELSE { [exc |-> "",
                value |-> [summary |-> CHOOSE r \in summary_row : TRUE,
                           needs |-> needs,
                           objectives |-> objectives,
                           types |-> types,
                           indicators |-> indicators]] :
                   needs \in Orderings(aggregate_rows(Facts(seen[3]), seen[3].needs,
                                           "need_id", "need_score"), LabelBefore),
                   objectives \in Orderings(aggregate_rows(Facts(seen[4]),
                                           seen[4].objectives,
                                           "objective_id", "objective_score"),
                                           LabelBefore),
                   types \in Orderings(aggregate_rows(Facts(seen[5]), seen[5].types,
                                           "type_id", "type_score"), LabelBefore),
                   indicators \in Orderings(indicators_rows(seen[6], Facts(seen[6])),
                                            IndicatorLabelBefore) }

\* get_score_detail when every statement reads the same store.
get_score_detail(store, epci_id, year) ==
    get_score_detail_in([k \in 1..6 |-> store], epci_id, year)

\* routers/scores.py line 14: Query(le=2000).
limit_le == 2000

\* routers/scores.py lines 11-27: FastAPI answers 422 to a query that fails
\* the validation of its parameters, and 500 to an exception of the service.
router_list_scores(store, search, limit, offset, order_by, year) ==
    IF \/ search # Null /\ Len(search) < 2
       \/ limit > limit_le
       \/ order_by \notin { "name", "score", "code" }
    THEN { [status |-> 422, body |-> Null] }
    ELSE { IF r.exc = "" THEN [status |-> 200, body |-> r.value]
           ELSE [status |-> 500, body |-> Null] :
               r \in list_scores(store, search, limit, offset, order_by, year) }

\* router_get_score_detail without its except clause.
router_get_score_detail_uncaught(store, epci_id, year) ==
    { IF r.exc = "" THEN [status |-> 200, body |-> r.value]
      ELSE [status |-> 500, body |-> Null] :
          r \in get_score_detail(store, epci_id, year) }

\* routers/scores.py lines 35-43: ValueError becomes HTTP 404.
router_get_score_detail(store, epci_id, year) ==
    { IF r.exc = "" THEN [status |-> 200, body |-> r.value]
      ELSE IF r.exc = "ValueError" THEN [status |-> 404, body |-> Null]
      ELSE [status |-> 500, body |-> Null] :
          r \in get_score_detail(store, epci_id, year) }

---------------------------------------------------------------------------
(* The stores of the read side: the reference tables and the units are     *)
(* fixed, the score facts are any few of ScoreFacts.                       *)

\* An entity built with the attributes given, the others at their defaults.
Row(defaults, attrs) ==
    [k \in DOMAIN defaults |-> IF k \in DOMAIN attrs THEN attrs[k] ELSE defaults[k]]

s_2 == << "2" >>
s_3 == << "3" >>
s_9 == << "9" >>
s_Ab == << "A", "b" >>
s_ba == << "b", "a" >>

ReadStore ==
    [needs |-> { Row(NeedDefaults, [id |-> N1, label |-> << "a" >>]),
                 Row(NeedDefaults, [id |-> N2, label |-> << "a" >>]) },
     objectives |-> { Row(ObjectiveDefaults, [id |-> o1, label |-> << "c" >>]) },
     types |-> { Row(IndicatorTypeDefaults, [id |-> Typ1, label |-> << "d" >>]) },
     indicators |-> { Row(IndicatorDefaults, [id |-> i001, label |-> << "x" >>]),
                      Row(IndicatorDefaults, [id |-> i002, label |-> << "y" >>]) },
     epcis |-> { Row(EpciDefaults, [id |-> s_1, label |-> s_Ab]),
                 Row(EpciDefaults, [id |-> s_2, label |-> s_ba]),
                 Row(EpciDefaults, [id |-> s_3, label |-> s_ba]) },
     values |-> {},
     scores |-> {}]

ScoreFacts ==
    { Row(IndicatorScoreDefaults,
          [epci_id |-> s_1, indicator_id |-> i001, year |-> 2023,
           indicator_score |-> Some(80), need_id |-> N1, need_score |-> Some(40),
           objective_id |-> o1, objective_score |-> Some(80),
           type_id |-> Typ1, type_score |-> Some(80), global_score |-> Some(50)]),
      Row(IndicatorScoreDefaults,
          [epci_id |-> s_1, indicator_id |-> i002, year |-> 2023,
           indicator_score |-> Some(60), need_id |-> N1,
           objective_id |-> o1, objective_score |-> Some(61)]),
      Row(IndicatorScoreDefaults,
          [epci_id |-> s_2, indicator_id |-> i001, year |-> 2023]),
      Row(IndicatorScoreDefaults,
          [epci_id |-> s_3, indicator_id |-> i001, year |-> 2023,
           indicator_score |-> Some(70), need_id |-> N2, need_score |-> Some(70),
           global_score |-> Some(50)]),
      Row(IndicatorScoreDefaults,
          [epci_id |-> s_1, indicator_id |-> i001, year |-> 2022,
           indicator_score |-> Some(10), need_id |-> N2, need_score |-> Some(10),
           global_score |-> Some(10)]),
      Row(IndicatorScoreDefaults,
          [epci_id |-> s_2, indicator_id |-> i002, year |-> 2022,
           indicator_score |-> Some(20), need_id |-> N1, need_score |-> Some(20),
           global_score |-> Some(30)]),
      Row(IndicatorScoreDefaults,
          [epci_id |-> s_3, indicator_id |-> i002,
           indicator_score |-> Some(5), global_score |-> Some(5)]) }

MaxFacts == 3

ScoreStores ==
    { [ReadStore EXCEPT !.scores = facts] :
          facts \in { S \in SUBSET ScoreFacts : Cardinality(S) <= MaxFacts } }

MaxLimit == 2

MaxOffset == 2

Searches == { Null, EmptyStr, << "A", "B" >>, << "b", "_" >>, << "z", "z" >> }

Limits == ((-1)..MaxLimit) \cup { limit_le + 1 }

Offsets == (-1)..MaxOffset

OrderBys == { "name", "score", "code", "label" }

Years == { Null, Some(0), Some(2022) }

UnitIds == { s_1, s_2, s_3, s_9 }

InitScores ==
    /\ db \in ScoreStores
    /\ sess = EmptyStore
    /\ wb = NoSheets
    /\ pc = "idle"
    /\ sheet = 1
    /\ exc = ""
    /\ calls = << >>
    /\ before = EmptyStore
    /\ outcome = "none"
    /\ replay = FALSE
    /\ arg = << >>
    /\ result = << >>

\* GET /scores
ListScores ==
    /\ result = << >>
    /\ \E search \in Searches, limit \in Limits, offset \in Offsets,
          order_by \in OrderBys, year \in Years :
           /\ arg' = [op |-> "list_scores", search |-> search, limit |-> limit,
                      offset |-> offset, order_by |-> order_by, year |-> year]
           /\ \E response \in router_list_scores(db, search, limit, offset,
                                                 order_by, year) :
                  result' = << response >>
    /\ UNCHANGED << db, sess, wb, pc, sheet, exc, calls, before, outcome, replay >>

\* GET /scores/{epci_id}
GetScoreDetail ==
    /\ result = << >>
    /\ \E epci_id \in UnitIds, year \in Years :
           /\ arg' = [op |-> "get_score_detail", epci_id |-> epci_id,
                      year |-> year]
           /\ \E response \in router_get_score_detail(db, epci_id, year) :
                  result' = << response >>
    /\ UNCHANGED << db, sess, wb, pc, sheet, exc, calls, before, outcome, replay >>

NextScores == ListScores \/ GetScoreDetail

SpecScores == InitScores /\ [][NextScores]_vars

---------------------------------------------------------------------------
(* A read query beside one run of ingest_workbook.  The run writes through *)
(* its session and the query reads through its own: each statement the     *)
(* query executes reads the committed store of that moment.  arg is the    *)
(* query, result the stores its statements have read so far.               *)

s_7 == << "7" >>

\* The store before the run: the unit and the entities the workbooks name
\* are there under other labels, with a score fact of the unit.
ConcurrentStore ==
    [ReadStore EXCEPT
         !.epcis = @ \cup { Row(EpciDefaults, [id |-> s_7, label |-> s_Ab]) },
         !.scores = { Row(IndicatorScoreDefaults,
                          [epci_id |-> s_7, indicator_id |-> i001, year |-> 2023,
                           indicator_score |-> Some(80),
                           need_id |-> N1, need_score |-> Some(40),
                           objective_id |-> o1, objective_score |-> Some(80),
                           global_score |-> Some(50)]) }]

\* A workbook whose import commits and one whose import raises at the
\* values sheet.
ConcurrentWorkbooks ==
    { RefSheets[1] @@ LinkSheets[1] @@ FactSheets[7],
      RefSheets[1] @@ LinkSheets[1] @@ FactSheets[3] }

Queries ==
    { [op |-> "list_scores", search |-> << "a", "b" >>, limit |-> 50, offset |-> 0,
       order_by |-> "name", year |-> Null],
      [op |-> "get_score_detail", epci_id |-> s_7, year |-> Null] }

NoQuery == [op |-> "none"]

\* The statements a query executes: lines 42, 71 and 91 of list_scores,
\* lines 113, 135, 149, 165, 181 and 197 of get_score_detail.
Statements(op) == IF op = "list_scores" THEN 3 ELSE 6

InitConcurrent ==
    /\ db = ConcurrentStore
    /\ sess = ConcurrentStore
    /\ wb = NoSheets
    /\ pc = "idle"
    /\ sheet = 1
    /\ exc = ""
    /\ calls = << >>
    /\ before = ConcurrentStore
    /\ outcome = "none"
    /\ replay = FALSE
    /\ arg = NoQuery
    /\ result = << >>

BeginConcurrent == pc = "idle" /\ \E w \in ConcurrentWorkbooks : Start(w, FALSE)

\* The router calls the service.
QueryBegins ==
    /\ arg = NoQuery
    /\ arg' \in Queries
    /\ UNCHANGED << db, sess, wb, pc, sheet, exc, calls, before, outcome, replay,
                    result >>

\* db.execute(...): the next statement of the query reads the committed
\* store.
QueryExecutes ==
    /\ arg # NoQuery
    /\ Len(result) < Statements(arg.op)
    /\ result' = Append(result, db)
    /\ UNCHANGED << db, sess, wb, pc, sheet, exc, calls, before, outcome, replay,
                    arg >>

\* The outcomes of the query whose statements read the stores seen.
Answers(query, seen) ==
    IF query.op = "list_scores"
    THEN list_scores_in(seen, query.search, query.limit, query.offset,
                        query.order_by, query.year)
    ELSE get_score_detail_in(seen, query.epci_id, query.year)

NextConcurrent ==
    \/ BeginConcurrent
    \/ IngestNeeds
    \/ IngestObjectives
    \/ IngestIndicatorTypes
    \/ IngestIndicators
    \/ IngestIndicatorNeedLinks
    \/ IngestIndicatorObjectiveLinks
    \/ IngestIndicatorTypeLinks
    \/ IngestEpcis
    \/ IngestIndicatorValues
    \/ IngestIndicatorScores
    \/ Commit
    \/ CommitFails
    \/ Rollback
    \/ Close
    \/ QueryBegins
    \/ QueryExecutes

SpecConcurrent == InitConcurrent /\ [][NextConcurrent]_vars

---------------------------------------------------------------------------
(* The scripts beside the workbook: a per-indicator producer               *)
(* (scripts/api/i037.py, i113.py, after template_api_ingestion.py) and the *)
(* score calculation (scripts/scores/template_score_calculation.py).  A    *)
(* script opens its own session on the committed store and closes it       *)
(* before it ends; the rows a producer computes from its data files are    *)
(* an input of its run.                                                    *)

\* The attributes of Indicator (models/diag360_ref.py, lines 71-89).
IndicatorAttrs ==
    DOMAIN IndicatorDefaults \cup
        { "primary_source", "primary_url", "secondary_source", "secondary_url",
          "value_type", "unit", "meta", "created_at", "updated_at" }

\* The keywords of Indicator(id=indicator_id, nom=...) of i037.py line 169.
GenericIndicatorKeywords == { "id", "nom" }

\* The foreign keys of valeur_indicateur and score_indicateur
\* (models/diag360_raw.py, lines 38-39 and 51-52).
ForeignKeysHold(store) ==
    \A f \in store.values \cup store.scores :
        /\ f.epci_id \in Ids(store.epcis)
        /\ f.indicator_id \in Ids(store.indicators)

\* i037.py lines 160-171 (i113.py lines 154-165).  The constructor of a
\* mapped class raises TypeError for a keyword that is no attribute of the
\* class; the generic entry sets no label, which the table requires.
ensure_indicator_exists(session, indicator_id) ==
    IF indicator_id \in Ids(session.indicators) THEN ""
    ELSE IF ~ (GenericIndicatorKeywords \subseteq IndicatorAttrs) THEN "TypeError"
    ELSE "IntegrityError"

s_default_source == << "i037.csv" >>

\* Lines 81-98 of template_api_ingestion.py (i037.py lines 140-157), before
\* the commit: every row is merged.
RECURSIVE persist_values(_, _)
persist_values(session, rows) ==
    IF rows = << >> THEN session
    ELSE persist_values(
             [session EXCEPT !.values =
                  merge(@, FactKey, IndicatorValueDefaults,
                        [epci_id |-> Head(rows).epci_id,
                         indicator_id |-> Head(rows).indicator_id,
                         year |-> Head(rows).year,
                         value |-> Head(rows).value,
                         unit |-> Head(rows).unit,
                         source |-> Or(Head(rows).source, s_default_source),
                         meta |-> Head(rows).meta])],
             Tail(rows))

\* The end of a script: the store it leaves committed, the exception it
\* raises and the calls it made on its session.
Ended(store, e, made) == [db |-> store, exc |-> e, calls |-> made]

\* The commit of line 97 (line 108 of the score calculation) on the
\* session given, and the close of the finally clause.
Committing(store, session, func) ==
    IF ForeignKeysHold(session)
    THEN Ended(session, "", << func, "commit", "close" >>)
    ELSE Ended(store, "IntegrityError", << func, "commit failed", "close" >>)

\* i037.py lines 174-195: run, given the rows of transform_payload.
producer_run(store, indicator_id, rows) ==
    IF ensure_indicator_exists(store, indicator_id) # ""
    THEN Ended(store, ensure_indicator_exists(store, indicator_id),
               << "ensure_indicator_exists", "close" >>)
    ELSE IF rows = << >>
    THEN Ended(store, "", << "ensure_indicator_exists", "close" >>)
    ELSE Committing(store, persist_values(store, rows), "persist_values")

\* template_score_calculation.py line 112.
DEFAULT_YEAR == 2025

\* Lines 41-61: the rows of the requested indicators and of the year given
\* whose value is not null.  The primary key makes the mapping
\* {indicator_id: {epci_id: value}} the set of these rows.
fetch_raw_values(session, indicator_ids, year) ==
    { v \in session.values :
          /\ v.indicator_id \in Range(indicator_ids)
          /\ v.year = year
          /\ v.value # Null }

\* The values of one indicator among the raw values.
epci_map(raw_values, indicator_id) ==
    { v.value[2] : v \in { w \in raw_values : w.indicator_id = indicator_id } }

min_value(numbers) == CHOOSE n \in numbers : \A m \in numbers : n <= m

max_value(numbers) == CHOOSE n \in numbers : \A m \in numbers : n >= m

\* The Numeric of h hundredths.
Hundredths(h) ==
    IF h % 100 = 0 THEN Some(h \div 100)
    ELSE << "num", h \div Gcd(h, 100), 100 \div Gcd(h, 100) >>

\* Lines 73-78: span is 1e-9 when all values are equal, and then the
\* score is 0; the score is rounded to the hundredth.
normalized_score(value, lo, hi) ==
    IF hi = lo THEN Some(0)
    ELSE Hundredths((2 * (value - lo) * 10000 + (hi - lo)) \div (2 * (hi - lo)))

\* Lines 64-86.
compute_scores(raw_values) ==
    { [IndicatorScoreDefaults EXCEPT
           !.epci_id = v.epci_id,
           !.indicator_id = v.indicator_id,
           !.year = DEFAULT_YEAR,
           !.indicator_score =
               normalized_score(v.value[2],
                                min_value(epci_map(raw_values, v.indicator_id)),
                                max_value(epci_map(raw_values, v.indicator_id))),
           !.global_score =
               normalized_score(v.value[2],
                                min_value(epci_map(raw_values, v.indicator_id)),
                                max_value(epci_map(raw_values, v.indicator_id))),
           !.report =
               << v.value,
                  min_value(epci_map(raw_values, v.indicator_id)),
                  max_value(epci_map(raw_values, v.indicator_id)) >>] :
          v \in raw_values }

\* Lines 89-109, before the commit.  Every attribute of the record is set,
\* so that the merge replaces the row of the same key.
persist_scores(session, rows) ==
    [session EXCEPT !.scores =
         { r \in @ : \A n \in rows : ~ SameKey(FactKey, r, n) } \cup rows]

\* Lines 116-127.
score_run(store, rows) ==
    IF rows = {} THEN Ended(store, "", << "fetch_raw_values", "close" >>)
    ELSE Committing(store, persist_scores(store, rows), "persist_scores")

s_unit == << "t" >>

RawValue(epci_id, indicator_id, year, value) ==
    [epci_id |-> epci_id, indicator_id |-> indicator_id, year |-> year,
     value |-> Some(value), unit |-> s_unit, source |-> s_default_source,
     meta |-> << "raw" >>]

\* The rows a producer may compute: none, rows of one year for two units,
\* rows of another year, rows of another indicator and a row of a unit the
\* store does not know.
ProducerRows ==
    { << >>,
      << RawValue(s_1, i001, 2023, 10), RawValue(s_2, i001, 2023, 5),
         RawValue(s_3, i001, 2023, 7) >>,
      << RawValue(s_1, i001, 2025, 4), RawValue(s_2, i001, 2025, 4) >>,
      << RawValue(s_1, i002, 2023, 5) >>,
      << RawValue(s_A, i001, 2023, 5) >> }

ProducerIndicators == { i001, i003 }

ScoreIndicators == { << i001 >>, << i001, i002 >> }

ScoreYears == { 2023, 2025 }

\* A workbook whose import commits and one whose import raises at the
\* values sheet.
ScriptWorkbooks ==
    { RefSheets[1] @@ LinkSheets[1] @@ FactSheets[2],
      RefSheets[2] @@ LinkSheets[2] @@ FactSheets[3] }

InitScripts ==
    /\ db = ReadStore
    /\ sess = ReadStore
    /\ wb = NoSheets
    /\ pc = "idle"
    /\ sheet = 1
    /\ exc = ""
    /\ calls = << >>
    /\ before = ReadStore
    /\ outcome = "none"
    /\ replay = FALSE
    /\ arg = NoQuery
    /\ result = << >>

BeginScripts == pc = "idle" /\ \E w \in ScriptWorkbooks : Start(w, FALSE)

\* A script ran from its first line to its last.
ScriptDone(input, end) ==
    /\ arg' = input
    /\ db' = end.db
    /\ sess' = end.db
    /\ before' = db
    /\ calls' = end.calls
    /\ exc' = end.exc
    /\ outcome' = IF end.exc # "" THEN "raised"
                  ELSE IF "commit" \in Range(end.calls) THEN "committed"
                  ELSE "returned"
    /\ pc' = "done"
    /\ UNCHANGED << wb, sheet, replay, result >>

ProducerRun ==
    /\ pc = "idle"
    /\ \E indicator_id \in ProducerIndicators, rows \in ProducerRows :
           ScriptDone([op |-> "producer", indicator_id |-> indicator_id,
                       rows |-> rows],
                      producer_run(db, indicator_id, rows))

ScoreRun ==
    /\ pc = "idle"
    /\ \E indicator_ids \in ScoreIndicators, year \in ScoreYears :
           ScriptDone([op |-> "scores", indicator_ids |-> indicator_ids,
                       year |-> year],
                      score_run(db, compute_scores(
                                        fetch_raw_values(db, indicator_ids, year))))

\* The run is over; what the model remembers of it is dropped.
ForgetRun ==
    /\ pc = "done"
    /\ pc' = "idle"
    /\ wb' = NoSheets
    /\ sheet' = 1
    /\ exc' = ""
    /\ calls' = << >>
    /\ before' = db
    /\ outcome' = "none"
    /\ replay' = FALSE
    /\ arg' = NoQuery
    /\ UNCHANGED << db, sess, result >>

NextScripts ==
    \/ BeginScripts
    \/ IngestNeeds
    \/ IngestObjectives
    \/ IngestIndicatorTypes
    \/ IngestIndicators
    \/ IngestIndicatorNeedLinks
    \/ IngestIndicatorObjectiveLinks
    \/ IngestIndicatorTypeLinks
    \/ IngestEpcis
    \/ IngestIndicatorValues
    \/ IngestIndicatorScores
    \/ Commit
    \/ CommitFails
    \/ Rollback
    \/ Close
    \/ ProducerRun
    \/ ScoreRun
    \/ ForgetRun

SpecScripts == InitScripts /\ [][NextScripts]_vars

---------------------------------------------------------------------------
(* Properties                                                              *)

LastCall == IF calls = << >> THEN "" ELSE calls[Len(calls)]

Handlers ==
    << "ingest_needs", "ingest_objectives", "ingest_indicator_types",
       "ingest_indicators", "ingest_indicator_need_links",
       "ingest_indicator_objective_links", "ingest_indicator_type_links",
       "ingest_epcis", "ingest_indicator_values", "ingest_indicator_scores" >>

\* Every id of a relationship set of a row of `targets` names an indicator
\* whose set `attr` holds the row's id, and conversely.
Symmetric(store, targets, attr) ==
    /\ \A e \in targets : \A x \in Range(e.indicator_ids) :
           \E ind \in store.indicators : ind.id = x /\ e.id \in Range(ind[attr])
    /\ \A ind \in store.indicators : \A t \in Range(ind[attr]) :
           \E e \in targets : e.id = t /\ ind.id \in Range(e.indicator_ids)

Bidirectional(store) ==
    /\ Symmetric(store, store.needs, "need_ids")
    /\ Symmetric(store, store.objectives, "objective_ids")
    /\ Symmetric(store, store.types, "type_ids")

\* C1: after any import that was committed, the relationship sets of the
\* needs, objectives and types and those of the indicators mirror each
\* other, and name existing rows only.
C1_Bidirectional == (pc = "done" /\ outcome = "committed") => Bidirectional(db)

\* C2: until the commit the committed store is the one the run found; a run
\* that raised leaves it so, has called no successful commit and hands the
\* exception on; a run that did not raise has committed once, after its
\* last handler, and the committed store is then the session's.
C2_AllOrNothing ==
    /\ pc \in { "sheets", "except" } => db = before
    /\ (pc \in { "finally", "done" } /\ exc # "") =>
           /\ db = before
           /\ "commit" \notin Range(calls)
           /\ calls # << >> => "rollback" \in Range(calls)
    /\ pc = "done" => (outcome = "raised" <=> exc # "")
    /\ (pc \in { "finally", "done" } /\ exc = "") =>
           /\ Cardinality({ k \in DOMAIN calls : calls[k] = "commit" }) = 1
           /\ \A k \in DOMAIN calls : calls[k] \in Range(Handlers) =>
                  \E j \in DOMAIN calls : j > k /\ calls[j] = "commit"
           /\ db = sess

\* A run raised after the indicators sheet had changed the session's store.
C2_Witness ==
    /\ pc = "done"
    /\ outcome = "raised"
    /\ "ingest_indicators" \in Range(calls)
    /\ db = before
    /\ ingest_indicators(db, iter_rows(wb["Table Indicateurs-Sources"])) # db

Group(func) ==
    IF func \in { "ingest_needs", "ingest_objectives", "ingest_indicator_types",
                  "ingest_indicators" } THEN 1
    ELSE IF func \in { "ingest_indicator_need_links", "ingest_indicator_objective_links",
                       "ingest_indicator_type_links" } THEN 2
    ELSE IF func = "ingest_epcis" THEN 3
    ELSE 4

\* C4: in a run, no handler is called twice, and the entity handlers are
\* called before the link handlers, these before the territorial-unit
\* handler, and that one before the value and score handlers.
C4_FixedOrder ==
    \A j, k \in DOMAIN calls :
        (j < k /\ calls[j] \in Range(Handlers) /\ calls[k] \in Range(Handlers)) =>
            /\ calls[j] # calls[k]
            /\ Group(calls[j]) <= Group(calls[k])

\* A run has called handlers of the four groups.
C4_Witness ==
    /\ pc = "done"
    /\ { Group(calls[k]) : k \in { j \in DOMAIN calls : calls[j] \in Range(Handlers) } }
           = { 1, 2, 3, 4 }

\* The << indicator, need >> links a need-link sheet names: the need from
\* the columns ID_Besoin and Besoin 1 to Besoin 5 of its rows.
NamedNeedLinks(df) ==
    UNION { { << normalise_indicator_id(Get(iter_rows(df)[r], "ID_Indicateurs")),
                 normalise_str(Get(iter_rows(df)[r], c)) >> :
                  c \in { "ID_Besoin" } \cup Range(NeedColumns) } :
            r \in DOMAIN df.rows }

\* The << indicator, target >> links a flag-column sheet names.
NamedFlagLinks(df, mapping, id_column) ==
    UNION { { << normalise_indicator_id(Get(iter_rows(df)[r], id_column)),
                 mapping[k][1] >> :
                  k \in { j \in DOMAIN mapping :
                              _flag(Get(iter_rows(df)[r], mapping[j][2])) } } :
            r \in DOMAIN df.rows }

\* The step of the link handler `func`: the targets the sheet names that the
\* session's store does not hold are left out of every indicator's set and
\* are not created, no exception is raised, and every named link between an
\* indicator and a target the store holds is recorded on both of them.
DanglingDropped(func, links, targets, attr) ==
    calls' = Append(calls, func) =>
        LET named == { p \in links : p[1] # Null /\ p[2] # Null }
            dangling == { p[2] : p \in named } \ Ids(sess[targets])
            valid == { p \in named : /\ p[1] \in Ids(sess.indicators)
                                     /\ p[2] \in Ids(sess[targets]) }
        IN  /\ exc' = ""
            /\ pc' = "sheets"
            /\ Ids(sess'[targets]) = Ids(sess[targets])
            /\ \A ind \in sess'.indicators : Range(ind[attr]) \cap dangling = {}
            /\ \A p \in valid :
                   /\ \E ind \in sess'.indicators :
                          ind.id = p[1] /\ p[2] \in Range(ind[attr])
                   /\ \E e \in sess'[targets] :
                          e.id = p[2] /\ p[1] \in Range(e.indicator_ids)

\* C5: a link that names a need, objective or type the session's store does
\* not hold when the link sheet is processed is recorded on neither side and
\* creates no row, the handler does not raise, and the other links of the
\* sheet are recorded.
C5_DanglingDropped ==
    [][ /\ DanglingDropped("ingest_indicator_need_links",
                           NamedNeedLinks(wb["Correspondance Indicateurs-Beso"]),
                           "needs", "need_ids")
        /\ DanglingDropped("ingest_indicator_objective_links",
                           NamedFlagLinks(wb["Correspondance Indicateurs-Obje"],
                                          ObjectiveMapping, "ID_Indicateurs"),
                           "objectives", "objective_ids")
        /\ DanglingDropped("ingest_indicator_type_links",
                           NamedFlagLinks(wb["Correspondance Indicateurs-Type"],
                                          TypeEntries, "ID_indicateurs"),
                           "types", "type_ids") ]_vars

\* The need-link handler has processed a sheet that links i001 to N2, which
\* the store holds, and to N9, which it does not.
C5_Witness ==
    /\ pc = "sheets"
    /\ LastCall = "ingest_indicator_need_links"
    /\ { << i001, N2 >>, << i001, N9 >> } \subseteq
           NamedNeedLinks(wb["Correspondance Indicateurs-Beso"])
    /\ N9 \notin Ids(sess.needs)
    /\ \E ind \in sess.indicators : ind.id = i001 /\ ind.need_ids = << N2 >>
    /\ \E need \in sess.needs : need.id = N2 /\ i001 \in Range(need.indicator_ids)

UniqueKeys(table, key) == \A r, q \in table : SameKey(key, r, q) => r = q

\* C6: the store holds one row per primary key, and after an entity sheet
\* was processed each row it wrote is the row as written: the attributes
\* the sheet does not set have the value of a fresh row.
C6_FullyReplaced ==
    /\ \A t \in { "needs", "objectives", "types", "indicators", "epcis" } :
           UniqueKeys(sess[t], EntityKey)
    /\ \A t \in { "values", "scores" } : UniqueKeys(sess[t], FactKey)
    /\ (pc = "sheets" /\ LastCall = "ingest_needs") =>
           ingest_needs(EmptyStore, iter_rows(wb["Table Besoins"])).needs
               \subseteq sess.needs
    /\ (pc = "sheets" /\ LastCall = "ingest_objectives") =>
           ingest_objectives(EmptyStore, iter_rows(wb["Table Objectifs"])).objectives
               \subseteq sess.objectives
    /\ (pc = "sheets" /\ LastCall = "ingest_indicator_types") =>
           ingest_indicator_types(EmptyStore,
                                  iter_rows(wb["Table Type indicateurs"])).types
               \subseteq sess.types
    /\ (pc = "sheets" /\ LastCall = "ingest_indicators") =>
           ingest_indicators(EmptyStore,
                             iter_rows(wb["Table Indicateurs-Sources"])).indicators
               \subseteq sess.indicators

MatrixHandler(name) ==
    IF name = "Table Valeurs" THEN "ingest_indicator_values"
    ELSE "ingest_indicator_scores"

MatrixNames == { "Table Valeurs", "Table Scores indicateurs" }

\* The sheet has a column whose normalised name is a unit-id candidate.
HasUnitIdColumn(df) ==
    \E k \in DOMAIN df.columns :
        _normalize_column_name(Strip(df.columns[k])) \in { s_id_epci, s_code_epci }

\* The sheet has a column whose name begins with the letter i.
HasIndicatorColumn(df) ==
    \E k \in DOMAIN df.columns : StartsWith(Lower(Strip(df.columns[k])), << "i" >>)

\* The position of the first unit-id column of a sheet that has one.
UnitIdIndex(df) ==
    CHOOSE k \in DOMAIN df.columns :
        /\ _normalize_column_name(Strip(df.columns[k])) \in { s_id_epci, s_code_epci }
        /\ \A j \in 1..(k - 1) :
               _normalize_column_name(Strip(df.columns[j]))
                   \notin { s_id_epci, s_code_epci }

\* The << unit, indicator >> pairs of the cells of a matrix sheet that are
\* not null in a row whose unit id is not null.
CellPairs(df) ==
    { << normalise_code(df.rows[r][UnitIdIndex(df)]),
         normalise_indicator_id(df.columns[k]) >> :
          << r, k >> \in { q \in (DOMAIN df.rows) \X (DOMAIN df.columns) :
                              /\ q[2] # UnitIdIndex(df)
                              /\ StartsWith(Lower(Strip(df.columns[q[2]])), << "i" >>)
                              /\ df.rows[q[1]][q[2]] # Null
                              /\ df.rows[q[1]][UnitIdIndex(df)] # Null } }

YearZeroPairs(facts) ==
    { << f.epci_id, f.indicator_id >> : f \in { g \in facts : g.year = 0 } }

\* C7: the handler of a matrix sheet that has a unit-id column and an
\* indicator column does not raise, and the session's store then holds a
\* fact of year 0 for each pair of a unit and an indicator whose cell is
\* not null, and for no other pair that it did not hold before.
C7_OneFactPerCell ==
    /\ (/\ LastCall = "ingest_indicator_values"
        /\ HasUnitIdColumn(wb["Table Valeurs"])
        /\ HasIndicatorColumn(wb["Table Valeurs"])) =>
           /\ exc = ""
           /\ YearZeroPairs(sess.values) =
                  YearZeroPairs(before.values) \cup CellPairs(wb["Table Valeurs"])
    /\ (/\ LastCall = "ingest_indicator_scores"
        /\ HasUnitIdColumn(wb["Table Scores indicateurs"])
        /\ HasIndicatorColumn(wb["Table Scores indicateurs"])) =>
           /\ exc = ""
           /\ YearZeroPairs(sess.scores) =
                  YearZeroPairs(before.scores)
                      \cup CellPairs(wb["Table Scores indicateurs"])

\* C9: the handler of a present matrix sheet without a unit-id column raises
\* ValueError; the run then calls no commit and ends raised, the committed
\* store being the one it found.
C9_NoUnitIdAborts ==
    \A name \in MatrixNames :
        (name \in DOMAIN wb /\ ~ HasUnitIdColumn(wb[name])) =>
            /\ LastCall = MatrixHandler(name) => (exc = "ValueError" /\ pc = "except")
            /\ "commit" \notin Range(calls)
            /\ db = before
            /\ pc = "done" => outcome = "raised"

\* A run ended raised on a value sheet without a unit-id column, after the
\* indicators sheet had changed the session's store.
C9_Witness ==
    /\ pc = "done"
    /\ outcome = "raised"
    /\ exc = "ValueError"
    /\ "Table Valeurs" \in DOMAIN wb
    /\ ~ HasUnitIdColumn(wb["Table Valeurs"])
    /\ "ingest_indicators" \in Range(calls)
    /\ "ingest_indicator_values" \in Range(calls)
    /\ "rollback" \in Range(calls)
    /\ ingest_indicators(db, iter_rows(wb["Table Indicateurs-Sources"])) # db

\* The matrix sheet `name` is present, has a unit-id column and no
\* indicator column.
NothingToMelt(name) ==
    /\ name \in DOMAIN wb
    /\ HasUnitIdColumn(wb[name])
    /\ ~ HasIndicatorColumn(wb[name])

Qualifying(df) ==
    { q \in (DOMAIN df.rows) \X (2..Len(df.columns)) :
          df.rows[q[1]][q[2]] # Null /\ df.rows[q[1]][1] # Null }

LongRow(df, q) ==
    [ID_EPCI |-> df.rows[q[1]][1],
     indicator_id |-> df.columns[q[2]],
     value |-> df.rows[q[1]][q[2]]]

\* C8: melting raises nothing and yields, for each cell that is not null in
\* a row whose unit id is not null, one long row of the unit id, the name
\* of the column and the cell, and no other row.
C8_MeltCorrect ==
    result # << >> =>
        /\ result[1].exc = ""
        /\ Len(result[1].rows) = Cardinality(Qualifying(arg))
        /\ \A k \in DOMAIN result[1].rows :
               \E q \in Qualifying(arg) : result[1].rows[k] = LongRow(arg, q)
        /\ \A q \in Qualifying(arg) :
               Cardinality({ k \in DOMAIN result[1].rows :
                                 result[1].rows[k] = LongRow(arg, q) })
                   = Cardinality({ p \in Qualifying(arg) :
                                       LongRow(arg, p) = LongRow(arg, q) })

\* The sheet of units A and B with i001 = [10, null] and i002 = [null, 5]
\* was melted into (A, i001, 10) and (B, i002, 5).
C8_Witness ==
    /\ arg = MatrixSheets[3]
    /\ result = << [exc |-> "",
                    rows |-> << [ID_EPCI |-> s_A, indicator_id |-> i001, value |-> s_10],
                                [ID_EPCI |-> s_B, indicator_id |-> i002, value |-> s_5] >>] >>

\* The handler SHEETS_MAPPING gives to a sheet name.
HandlerOf(name) ==
    Handlers[CHOOSE k \in DOMAIN SHEETS_MAPPING : SHEETS_MAPPING[k] = name]

\* C11: a run on a file that lacks a sheet of SHEETS_MAPPING opens its
\* session and ends by closing it, having raised nothing for the absent
\* sheet: when no handler and no commit failed, the handlers of the sheets
\* the file holds were all called and the run was committed.
C11_AbsentSkipped ==
    (pc = "done" /\ \E name \in Range(SHEETS_MAPPING) : name \notin DOMAIN wb) =>
        /\ LastCall = "close"
        /\ \/ "rollback" \in Range(calls)
           \/ /\ outcome = "committed"
              /\ \A name \in DOMAIN wb : HandlerOf(name) \in Range(calls)

---------------------------------------------------------------------------
(* Properties of the read side                                             *)

\* The response of the query made.
Response == result[1]

\* The year a query is answered for, by the rule of the specification.
AskedYear ==
    IF arg.year # Null THEN arg.year[2]
    ELSE IF db.scores = {} THEN 0
    ELSE CHOOSE y \in { f.year : f \in db.scores } :
             \A z \in { f.year : f \in db.scores } : z <= y

\* The score facts of a unit for a year.
FactsOf(epci_id, year) ==
    { f \in db.scores : f.epci_id = epci_id /\ f.year = year }

\* The units that have score facts for a year.
UnitsOf(year) == { f.epci_id : f \in { g \in db.scores : g.year = year } }

\* C12: a query is answered for the year it names, and for the latest year
\* of the score facts when it names none: the units listed are units with
\* facts of that year, counted over those facts, all of them are counted
\* when there is no search, and a detail is found exactly for such a unit;
\* on a store without score facts a valid list query is answered with no
\* item and a total of 0.
C12_YearResolved ==
    result # << >> =>
        /\ (arg.op = "list_scores" /\ Response.status = 200) =>
               /\ \A k \in DOMAIN Response.body.items :
                      LET item == Response.body.items[k]
                      IN  /\ item.epci_id \in UnitsOf(AskedYear)
                          /\ item.indicator_count =
                                 Cardinality(FactsOf(item.epci_id, AskedYear))
               /\ Response.body.total <= Cardinality(UnitsOf(AskedYear))
               /\ arg.search = Null =>
                      Response.body.total = Cardinality(UnitsOf(AskedYear))
        /\ (arg.op = "list_scores" /\ db.scores = {} /\ Response.status # 422) =>
               /\ Response.status = 200
               /\ Response.body = [items |-> << >>, total |-> 0]
        /\ arg.op = "get_score_detail" =>
               /\ Response.status = 200 <=> FactsOf(arg.epci_id, AskedYear) # {}
               /\ Response.status = 200 =>
                      Response.body.summary.indicator_count =
                          Cardinality(FactsOf(arg.epci_id, AskedYear))

\* A list query without a year on facts of 2022 and 2023 only, answered
\* with the unit that has facts of 2023 alone.
C12_Witness ==
    /\ result # << >>
    /\ arg.op = "list_scores"
    /\ arg.year = Null
    /\ { f.year : f \in db.scores } = { 2022, 2023 }
    /\ Response.status = 200
    /\ Response.body.total = 1
    /\ Len(Response.body.items) = 1
    /\ UnitsOf(2022) # UnitsOf(2023)

\* C13: a detail query is answered 404 exactly when the unit has no score
\* fact for the year the query is answered for, the store without facts
\* included, and is answered otherwise with the detail of that unit.
C13_NotFound ==
    (result # << >> /\ arg.op = "get_score_detail") =>
        /\ Response.status = 404 <=>
               ~ \E f \in db.scores :
                     f.epci_id = arg.epci_id /\ f.year = AskedYear
        /\ Response.status # 404 =>
               /\ Response.status = 200
               /\ Response.body.summary.epci_id = arg.epci_id
               /\ Len(Response.body.indicators) >= 1

\* A unit with score facts, but none for the year asked for, is not found.
C13_Witness ==
    /\ result # << >>
    /\ arg.op = "get_score_detail"
    /\ \E f \in db.scores : f.epci_id = arg.epci_id
    /\ FactsOf(arg.epci_id, AskedYear) = {}
    /\ Response.status = 404

\* The summaries a response carries: the items of a list, the summary of a
\* detail.
Summaries ==
    IF arg.op = "list_scores" THEN Range(Response.body.items)
    ELSE { Response.body.summary }

\* C14: the summary of a unit carries the mean of the indicator_score of the
\* unit's facts for the year, nulls left out, and the number of those facts.
C14_MeanOfIndicatorScores ==
    (result # << >> /\ Response.status = 200) =>
        \A summary \in Summaries :
            /\ summary.global_score =
                   avg(FactsOf(summary.epci_id, AskedYear), "indicator_score")
            /\ summary.indicator_count =
                   Cardinality(FactsOf(summary.epci_id, AskedYear))

\* The entries a list of the detail must hold by the claim read on
\* `column`: one for each id of the unit's facts, with the mean of `column`
\* over the facts that carry the id.
EntriesOf(facts, id_column, column) ==
    { [id |-> id, score |-> avg({ f \in facts : f[id_column] = id }, column)] :
          id \in { f[id_column] : f \in facts } \ { Null } }

\* The entries a list of the detail holds.
Entries(list) == { [id |-> list[k].id, score |-> list[k].score] : k \in DOMAIN list }

DetailAnswered ==
    /\ result # << >>
    /\ arg.op = "get_score_detail"
    /\ Response.status = 200

\* C15 as stated: each list of the detail holds one entry for each need
\* (objective, type) id of the unit's facts, with the mean of the indicator
\* scores of the facts linked to it: 80 and 60 give 70.
C15_MeanOfIndicatorScores ==
    DetailAnswered =>
        LET facts == FactsOf(arg.epci_id, AskedYear)
        IN  /\ Len(Response.body.needs) = Cardinality(Entries(Response.body.needs))
            /\ Entries(Response.body.needs) =
                   EntriesOf(facts, "need_id", "indicator_score")
            /\ Entries(Response.body.objectives) =
                   EntriesOf(facts, "objective_id", "indicator_score")
            /\ Entries(Response.body.types) =
                   EntriesOf(facts, "type_id", "indicator_score")

\* C15 amended: each list of the detail holds one entry for each need
\* (objective, type) id of the unit's facts, with the mean of the need_score
\* (objective_score, type_score) of the facts linked to it, nulls left out.
C15_MeanOfSubScores ==
    DetailAnswered =>
        LET facts == FactsOf(arg.epci_id, AskedYear)
        IN  /\ Len(Response.body.needs) = Cardinality(Entries(Response.body.needs))
            /\ Len(Response.body.objectives) =
                   Cardinality(Entries(Response.body.objectives))
            /\ Len(Response.body.types) = Cardinality(Entries(Response.body.types))
            /\ \A k, l \in DOMAIN Response.body.needs :
                   Response.body.needs[k].id = Response.body.needs[l].id => k = l
            /\ Entries(Response.body.needs) =
                   EntriesOf(facts, "need_id", "need_score")
            /\ Entries(Response.body.objectives) =
                   EntriesOf(facts, "objective_id", "objective_score")
            /\ Entries(Response.body.types) =
                   EntriesOf(facts, "type_id", "type_score")

\* Two facts of unit 1 with indicator scores 80 and 60, both linked to need
\* N1 with need scores 40 and none: N1 is listed once, with 40.
C15_Witness ==
    /\ DetailAnswered
    /\ { f.indicator_score : f \in FactsOf(arg.epci_id, AskedYear) } =
           { Some(80), Some(60) }
    /\ \A f \in FactsOf(arg.epci_id, AskedYear) : f.need_id = N1
    /\ Len(Response.body.needs) = 1
    /\ Response.body.needs[1].score = Some(40)
    /\ Response.body.objectives[1].score = << "num", 141, 2 >>

\* The units a list query is about: those with score facts for the year
\* that match the search, when there is one.
Matching ==
    { e \in db.epcis :
          /\ e.id \in UnitsOf(AskedYear)
          /\ arg.search = Null \/ search_matches(e, arg.search) }

\* The order the query asks for: a comes strictly before b.
Sorted(a, b) ==
    IF arg.order_by = "score"
    THEN /\ a.global_score # Null
         /\ \/ b.global_score = Null
            \/ b.global_score[2] * Den(a.global_score)
                   < a.global_score[2] * Den(b.global_score)
    ELSE IF arg.order_by = "code" THEN StrLess(a.epci_id, b.epci_id)
    ELSE StrLess(a.epci_label, b.epci_label)

\* The number of entries of the slice [offset, offset + limit) of n rows.
SliceLen(n, limit, offset) ==
    Cardinality({ k \in 1..n : offset < k /\ k <= offset + limit })

\* C16: a list query that is answered gives as total the number of units
\* with facts of the year that match the search, whatever limit and offset
\* are, and as items the entries offset + 1 .. offset + limit of those units
\* in an order sorted as order_by asks (label, unit id, or score descending
\* with the null scores last): no more than limit entries and no unit twice.
C16_Paged ==
    (result # << >> /\ arg.op = "list_scores" /\ Response.status = 200) =>
        LET items == Response.body.items
            n == Cardinality(Matching)
        IN  /\ Response.body.total = n
            /\ Len(items) = SliceLen(n, arg.limit, arg.offset)
            /\ \A k, l \in DOMAIN items :
                   items[k].epci_id = items[l].epci_id => k = l
            /\ \A k, l \in DOMAIN items : k < l => ~Sorted(items[l], items[k])
            /\ \E o \in Orderings(summary_rows(db, AskedYear, Matching), Sorted) :
                   \A k \in DOMAIN items : items[k] = o[arg.offset + k]

\* Three units listed by score from the second on, one at a time: the one
\* given has a score, the unit without score coming last.
C16_Witness ==
    /\ result # << >>
    /\ arg.op = "list_scores"
    /\ Response.status = 200
    /\ arg.order_by = "score"
    /\ arg.offset = 1
    /\ arg.limit = 1
    /\ Response.body.total = 3
    /\ Len(Response.body.items) = 1
    /\ Response.body.items[1].global_score # Null
    /\ \E e \in Matching :
           avg(FactsOf(e.id, AskedYear), "global_score") = Null

---------------------------------------------------------------------------
(* Properties of the canonicalisers                                        *)

\* The function applied to the cell, and what it gave.
Func == result[1]

Value == result[2]

\* The number a cell spells as a decimal literal, Null when it spells none.
Spelt == DecimalLiteral(Lower(Strip(arg)))

\* The number spelt is whole: it has no digit other than 0 after the units.
Whole(n) ==
    \/ n[3] = << >>
    \/ n[4] + (Len(n[3]) - Len(RStripZeros(n[3]))) >= 0

\* C17: normalise_code never raises, gives every spelling of a whole number
\* the decimal string of that number, and gives back the trimmed text of a
\* cell that spells no number (a cell with an underscore is left aside:
\* Python reads 3_0 as 30).
C17_Canonical ==
    (result # << >> /\ Func = "normalise_code" /\ arg # Null) =>
        /\ ~Raises(Value)
        /\ (Spelt # Null /\ Whole(Spelt)) =>
               Value = IntText(Spelt[2], IntegerDigits(Spelt))
        /\ (Spelt = Null /\ normalise_str(arg) # Null /\ "_" \notin Range(arg)) =>
               Value = Strip(arg)

\* The digits of the number an indicator cell spells, << "-" >> when it
\* spells none: digits, after an i or I and blanks or alone, or a whole
\* number as a numeric cell is written.
IdDigits ==
    LET text == Lower(Strip(arg))
        suffix == RemoveSpaces(Tail(text))
    IN  IF text # << >> /\ Head(text) = "i" /\ IsDigitStr(suffix) THEN Sig(suffix)
        ELSE IF Spelt # Null /\ Whole(Spelt) /\ ~Spelt[2] THEN IntegerDigits(Spelt)
        ELSE << "-" >>

\* C18: normalise_indicator_id gives every numeric spelling of an indicator
\* the letter i and the three digits of its number, zero-padded, and gives
\* back unchanged a cell that spells no number.
C18_ThreeDigits ==
    (result # << >> /\ Func = "normalise_indicator_id"
        /\ arg # Null /\ normalise_str(arg) # Null) =>
        /\ IdDigits # << "-" >> =>
               /\ Len(Value) = 4
               /\ Value = << "i" >> \o Zeros(3 - Len(IdDigits)) \o IdDigits
        /\ IdDigits = << "-" >> => Value = Strip(arg)

\* C19: to_int and to_float return a number or null for every cell, and
\* never raise.
C19_Total ==
    (result # << >> /\ Func \in { "to_int", "to_float" }) =>
        /\ ~Raises(Value)
        /\ Value = Null \/ Value[1] \in { "num", "int", "int~", "float", "nan", "inf" }

\* The cell is missing or spells nothing float() reads.
Unparseable == arg = Null \/ FloatLiteral(arg) = Null

\* The cell spells the number zero.
SpellsZero ==
    /\ ~Unparseable
    /\ FloatLiteral(arg)[1] = "dec"
    /\ FloatLiteral(arg)[3] = << >>

\* The cell spells a number whose whole part is zero.
SpellsBelowOne ==
    /\ ~Unparseable
    /\ FloatLiteral(arg)[1] = "dec"
    /\ IntegerDigits(FloatLiteral(arg)) = << >>

\* The cell spells a number below the smallest float.
SpellsBelowFloats ==
    /\ ~Unparseable
    /\ FloatLiteral(arg)[1] = "dec"
    /\ Len(FloatLiteral(arg)[3]) + FloatLiteral(arg)[4] < 0 - FloatMinExp

\* What a numeric cell gave: with to_int and to_float the value returned,
\* with ingest_epcis the attributes stored, whole ones and float ones.
Wholes ==
    IF Func = "to_int" THEN { Value }
    ELSE IF Func = "ingest_epcis" /\ ~Raises(Value)
    THEN { e.population_total : e \in Value[2] }
    ELSE {}

Floats ==
    IF Func = "to_float" THEN { Value }
    ELSE IF Func = "ingest_epcis" /\ ~Raises(Value)
    THEN { e.area_km2 : e \in Value[2] }
    ELSE {}

\* C20 as stated: a missing or unparseable cell is stored as null, and 0 is
\* stored only for a cell that spells zero.
C20_AsStated ==
    result # << >> =>
        \A v \in Wholes \cup Floats :
            /\ Unparseable => v = Null
            /\ v = Some(0) => SpellsZero

\* C20 amended: a missing or unparseable cell is stored as null, never as
\* 0; 0 is stored only for a cell that spells zero, for a whole attribute
\* whose cell spells a number below one, which to_int truncates, and for a
\* float attribute whose cell spells a number below the smallest float.
C20_NullNotZero ==
    result # << >> =>
        /\ \A v \in Wholes :
               /\ Unparseable => v = Null
               /\ v = Some(0) => SpellsBelowOne
        /\ \A v \in Floats :
               /\ Unparseable => v = Null
               /\ v = Some(0) => SpellsZero \/ SpellsBelowFloats

\* A unit whose numeric cells hold a text that is no number is stored with
\* null attributes.
C20_Witness ==
    /\ result # << >>
    /\ Func = "ingest_epcis"
    /\ arg # Null
    /\ Unparseable
    /\ ~Raises(Value)
    /\ \E e \in Value[2] : e.population_total = Null /\ e.area_km2 = Null

\* C21: a query changes nothing of the store and is answered with what it
\* asks for (200), with not found (404) or, rejected before the service is
\* called, with a validation error (422): the service raises nothing else.
C21_ReadOnlyNotFoundOnly ==
    [][(result = << >> /\ result' # << >>) =>
           /\ db' = db
           /\ result'[1].status \in { 200, 404, 422 }]_vars

---------------------------------------------------------------------------
(* Properties of a query beside a run                                      *)

\* The run has committed.
Committed == \E k \in DOMAIN calls : calls[k] = "commit"

\* The outcomes of a query on one store.
AnswersOn(query, store) ==
    Answers(query, [k \in 1..Statements(query.op) |-> store])

\* C22 as stated: a query beside a run is answered as it is on the store
\* as it was before the run or, once the run has committed, as it is on the
\* store the run committed.
C22_AsStated ==
    (arg # NoQuery /\ Len(result) = Statements(arg.op)) =>
        \/ Answers(arg, result) = AnswersOn(arg, before)
        \/ Committed /\ Answers(arg, result) = AnswersOn(arg, db)

\* C22, amended: every statement of a query beside a run has read the store as it
\* was before the run or, once the run has committed, the store the run
\* committed, which holds what all its sheets wrote; before the commit and
\* in a run that rolls back every statement has read the store as it was
\* before, and the query is answered as it is on that store.
C22_BeforeOrAfter ==
    /\ \A k \in DOMAIN result :
           \/ result[k] = before
           \/ Committed /\ result[k] = db
    /\ (arg # NoQuery /\ ~Committed /\ Len(result) = Statements(arg.op)) =>
           Answers(arg, result) = AnswersOn(arg, before)
    /\ (Committed /\ pc = "done") =>
           /\ db = sess
           /\ calls = <<"ingest_needs", "ingest_objectives", "ingest_indicator_types",
                        "ingest_indicators", "ingest_indicator_need_links",
                        "ingest_indicator_objective_links",
                        "ingest_indicator_type_links", "ingest_epcis",
                        "ingest_indicator_values", "ingest_indicator_scores",
                        "commit", "close">>

\* A detail query whose statements were executed while the sheets of the
\* run were being written and after its commit: it read the store before
\* the run, then the committed one, and never the session's.
C22_Witness ==
    /\ arg.op = "get_score_detail"
    /\ Len(result) = 6
    /\ Committed
    /\ db # before
    /\ result[1] = before
    /\ result[6] = db

---------------------------------------------------------------------------
(* Properties of the reference and link sheets                             *)

\* The rows of a sheet of the workbook, as iter_rows yields them.
RowsOf(name) == iter_rows(wb[name])

\* C23: once the indicators sheet is processed, the api_available of each
\* indicator it names is what the flag parser gives for the "API disponible"
\* cell of the last row that names it: true for x, 1, true and oui in any
\* case and between blanks, false for any other cell.
C23_FlagParsed ==
    LastCall = "ingest_indicators" =>
        LET rows == RowsOf("Table Indicateurs-Sources")
            IdOf(k) == normalise_indicator_id(Get(rows[k], "ID_indicateurs"))
        IN  \A k \in DOMAIN rows :
                (IdOf(k) # Null /\ \A j \in DOMAIN rows : j > k => IdOf(j) # IdOf(k)) =>
                    \E ind \in sess.indicators :
                        /\ ind.id = IdOf(k)
                        /\ ind.api_available = _flag(Get(rows[k], "API disponible"))

\* The needs a row of the need-link sheet names and the category it gives.
LinkNeeds(row) ==
    { normalise_str(Get(row, c)) : c \in { "ID_Besoin" } \cup Range(NeedColumns) }
        \ { Null }

LinkCategory(row) ==
    Or(normalise_str(Get(row, "Type_de_besoins")),
       normalise_str(Get(row, "Type de besoins")))

\* The rows of the need-link sheet that give a category for a need.
CategoryRows(rows, id) ==
    { k \in DOMAIN rows :
          /\ normalise_indicator_id(Get(rows[k], "ID_Indicateurs")) # Null
          /\ id \in LinkNeeds(rows[k])
          /\ LinkCategory(rows[k]) # Null }

\* A need that has a category keeps it when the need-link sheet is processed.
CategoryKept ==
    \A n \in sess.needs :
        n.category # Null =>
            \E m \in sess'.needs : m.id = n.id /\ m.category = n.category

\* A need without a category takes the one of the first row that gives it
\* one, and stays without when no row does.
FirstCategoryWins ==
    \A n \in sess.needs :
        n.category = Null =>
            \E m \in sess'.needs :
                /\ m.id = n.id
                /\ LET rows == RowsOf("Correspondance Indicateurs-Beso")
                       ks == CategoryRows(rows, n.id)
                   IN  IF ks = {} THEN m.category = Null
                       ELSE m.category =
                                LinkCategory(rows[CHOOSE k \in ks : \A j \in ks : k <= j])

NeedLinksProcessed ==
    /\ Len(calls') = Len(calls) + 1
    /\ calls'[Len(calls')] = "ingest_indicator_need_links"

\* C24: the need-link sheet changes no category a need already has, and a
\* need without one takes the category of the first row of the sheet that
\* gives it one.
C24_CategoryIfUnknown ==
    [][NeedLinksProcessed => (CategoryKept /\ FirstCategoryWins)]_vars

---------------------------------------------------------------------------
(* Properties of the session of a run                                      *)

\* The places of a call in the calls of the run.
Places(call) == { k \in DOMAIN calls : calls[k] = call }

\* C25: a run that opened its session calls no handler after a commit, a
\* rollback or a close; it closes the session at most once, after the commit
\* or the rollback, and never both commits and rolls back; a run that has
\* ended has done exactly one of the two, the commit when no exception was
\* raised and the rollback when a handler or the commit raised, and has
\* closed the session, once, as its last call.
C25_FinishedOnce ==
    /\ \A i, j \in DOMAIN calls :
           (i < j /\ calls[i] \in { "commit", "commit failed", "rollback", "close" })
               => calls[j] \notin Range(Handlers)
    /\ Cardinality(Places("close")) <= 1
    /\ Cardinality(Places("commit") \cup Places("rollback")) <= 1
    /\ \A k \in Places("close") :
           k > 1 /\ calls[k - 1] \in { "commit", "rollback" }
    /\ (pc = "done" /\ outcome = "committed") =>
           /\ Cardinality(Places("commit")) = 1
           /\ Places("rollback") = {}
           /\ LastCall = "close"
           /\ db = sess
    /\ (pc = "done" /\ outcome = "raised" /\ calls # << >>) =>
           /\ Cardinality(Places("rollback")) = 1
           /\ Places("commit") = {}
           /\ LastCall = "close"
           /\ db = before

\* A run whose commit failed has ended: rolled back, then closed.
C25_Witness ==
    /\ pc = "done"
    /\ Places("commit failed") # {}
    /\ Places("rollback") # {}
    /\ LastCall = "close"

(***************************************************************************)
(* Properties of the columns of a matrix sheet                             *)
(***************************************************************************)

\* The columns detected as indicator columns hold neither the detected
\* unit-id column nor the detected unit-label column.
MetadataNotDetected(df) ==
    /\ _detect_epci_column(df) \notin Range(_detect_indicator_columns(df))
    /\ _detect_epci_label_column(df) \notin Range(_detect_indicator_columns(df))

\* C26: when the handler of a matrix sheet has run, the columns it detected
\* as indicator columns hold neither the unit-id column nor the unit-label
\* column it detected, and the melt did not raise KeyError for a column that
\* was renamed away.
C26_MetadataNotIndicators ==
    \A name \in MatrixNames :
        LastCall = MatrixHandler(name) =>
            /\ MetadataNotDetected(_normalise_columns(wb[name]))
            /\ exc # "KeyError"

(***************************************************************************)
(* Properties of the relationship sets after a run                         *)
(***************************************************************************)

\* Each record holds under attr the sorted members the pairs give its id.
LinksAsGiven(records, pairs, attr) ==
    \A r \in records : r[attr] = sorted(Members(pairs, r.id))

\* The pairs the rows of the need-link sheet give on the store.
NeedLinksOf(store, df) ==
    need_links_rows([indicator_to_needs |-> {}, need_to_indicators |-> {},
                     need_categories |-> {}],
                    Ids(store.needs), df)

NeedLinksReflect(store, acc) ==
    /\ LinksAsGiven(store.indicators, acc.indicator_to_needs, "need_ids")
    /\ LinksAsGiven(store.needs, acc.need_to_indicators, "indicator_ids")

FlagLinksReflect(store, targets, acc, attr) ==
    /\ LinksAsGiven(store.indicators, acc.indicator_to, attr)
    /\ LinksAsGiven(targets, acc.to_indicators, "indicator_ids")

\* C27: when a run has committed, every relationship set of the store is
\* the one the valid rows of the link sheets of the workbook of this run
\* give, and is empty for an entity no valid row names, whatever the store
\* held before the run.
C27_LinksOfThisWorkbook ==
    (pc = "done" /\ outcome = "committed") =>
        /\ NeedLinksReflect(
               db, NeedLinksOf(db, RowsOf("Correspondance Indicateurs-Beso")))
        /\ FlagLinksReflect(
               db, db.objectives,
               flag_links_rows([indicator_to |-> {}, to_indicators |-> {}],
                               Ids(db.objectives), ObjectiveMapping,
                               "ID_Indicateurs",
                               RowsOf("Correspondance Indicateurs-Obje")),
               "objective_ids")
        /\ FlagLinksReflect(
               db, db.types,
               flag_links_rows([indicator_to |-> {}, to_indicators |-> {}],
                               Ids(db.types), TypeEntries, "ID_indicateurs",
                               RowsOf("Correspondance Indicateurs-Type")),
               "type_ids")

(***************************************************************************)
(* Properties of the scripts beside the workbook                           *)
(***************************************************************************)

\* The facts of an explicit year.
ExplicitYear(facts) == { f \in facts : f.year # 0 }

\* C28: during and after a run of ingest_workbook, the value and score
\* facts of a year other than 0 are, in the session's store and in the
\* committed store, the ones the store held before the run: the run writes
\* no fact of such a year and changes none.
C28_ExplicitYearsKept ==
    DOMAIN wb # {} =>
        /\ ExplicitYear(sess.values) = ExplicitYear(before.values)
        /\ ExplicitYear(sess.scores) = ExplicitYear(before.scores)
        /\ ExplicitYear(db.values) = ExplicitYear(before.values)
        /\ ExplicitYear(db.scores) = ExplicitYear(before.scores)

\* A run of ingest_workbook committed changes on a store that held value
\* facts and score facts of explicit years.
C28_Witness ==
    /\ DOMAIN wb # {}
    /\ pc = "done"
    /\ outcome = "committed"
    /\ db # before
    /\ ExplicitYear(before.values) # {}
    /\ ExplicitYear(before.scores) # {}

\* C29: when run(indicator_ids, year) of the score calculation has ended,
\* every score fact it wrote has the year it was given and is the score of
\* a value fact of that year, of the same unit and of one of the requested
\* indicators.
C29_ScoresOfTheYearRead ==
    (pc = "done" /\ arg.op = "scores") =>
        \A f \in db.scores \ before.scores :
            /\ f.year = arg.year
            /\ \E v \in fetch_raw_values(before, arg.indicator_ids, arg.year) :
                   /\ v.epci_id = f.epci_id
                   /\ v.indicator_id = f.indicator_id

\* C30: when the run of a producer has ended, ensure_indicator_exists has
\* returned without raising, the store holds an indicator of the id given,
\* and the run went on to persist_values when it had rows to store.
C30_IndicatorEnsured ==
    (pc = "done" /\ arg.op = "producer") =>
        /\ ensure_indicator_exists(before, arg.indicator_id) = ""
        /\ arg.indicator_id \in Ids(db.indicators)
        /\ arg.rows # << >> => "persist_values" \in Range(calls)

=========================================================================
